---- MODULE Spec2Model ----
(***************************************************************************)
(* Long-polling room system of server.js (the second, long-polling copy of *)
(* the server, lines 534..1212): the room registry `rooms`, the session    *)
(* table `clientRooms`, the parked polls `pendingPolls`, their timers, and *)
(* the handlers create / join / leave / send / poll, the poll timeout, the *)
(* close handler and the periodic cleanup.                                 *)
(*                                                                         *)
(* Strings are sequences of character runs, so that trim, slice and the    *)
(* 5-digit test are computed and not assumed.  A JS Map is a function      *)
(* whose DOMAIN is the key set; room.clients, whose insertion order is     *)
(* observable through roomSnapshot, is a sequence of client records.       *)
(* randId(10) is modelled as a fresh id (a 36^10 collision is not          *)
(* modelled).  The unread field createdAt is left out.  Node is single     *)
(* threaded: every handler and every timer callback is one atomic action.  *)
(***************************************************************************)
EXTENDS Integers, Sequences, FiniteSets, TLC

\* ------------------------------------------------------------------ bounds
MaxClients == 3      \* client ids handed out by randId
MaxPolls == 2        \* poll requests that get parked
MaxQueue == 3        \* events waiting in one client's queue
MaxSends == 2        \* messages broadcast
MaxTicks == 3        \* clock ticks
TicksPerTimeout == 1 \* clock ticks per poll timeout (time granularity)
MaxBudget == 4       \* clients + parked polls + messages + clock ticks in one behaviour
MaxRequests == 32    \* STT/TTS requests of the first address
MaxOtherRequests == 1 \* STT/TTS requests of the second address
MaxReapTicks == 5    \* clock ticks of the behaviours in which clients fall silent

\* ------------------------------------------------------- program constants
MAX_MSG_CHARS == 1000
POLL_TIMEOUT_MS == 30000
CLIENT_TIMEOUT_MS == 60000
CLEANUP_INTERVAL_MS == 30000
RATE_LIMIT_WINDOW_MS == 60000
RATE_LIMIT_MAX_REQUESTS == 30

Quantum == POLL_TIMEOUT_MS \div TicksPerTimeout

\* ----------------------------------------------------------------- strings
\* A string is the sequence of its runs: [ch, n] is the character ch repeated
\* n times, adjacent runs have different characters.
Run(ch, n) == [ch |-> ch, n |-> n]
Str(chars) == [i \in 1..Len(chars) |-> Run(chars[i], 1)]

RECURSIVE StrLen(_)
StrLen(s) == IF s = <<>> THEN 0 ELSE Head(s).n + StrLen(Tail(s))

\* ------------------------------------------------------------------ inputs
Digits == {"0", "1", "2", "3", "4", "5", "6", "7", "8", "9"}
CodeA == Str(<<"1", "2", "3", "4", "5">>)
CodeB == Str(<<"5", "4", "3", "2", "1">>)
\* the codes makeRoomCode draws in the model
GenCodes == {CodeA, CodeB}
\* request field `room`: absent, padded, well formed, too short, not digits
RawCodes == {<<>>, Str(<<" ">>) \o CodeA, CodeB, Str(<<"1", "2", "3", "4">>),
             Str(<<"1", "2", "a", "4", "5">>)}
\* request field `text`: absent, blank, padded, longer than MAX_MSG_CHARS
LongText == <<Run("x", MAX_MSG_CHARS + 1)>>
RawTexts == {<<>>, <<Run(" ", 2)>>, Str(<<" ", "h", "i", " ">>), LongText}
\* request field `name`: the k-th client to register sends the k-th of these
\* (absent, padded, longer than MAX_MSG_CHARS, then again)
RawNames == << <<>>, Str(<<" ", "B", "o">>), <<Run("n", MAX_MSG_CHARS + 1)>> >>
RawNameOf(k) == RawNames[((k - 1) % Len(RawNames)) + 1]
UserName == Str(<<"U", "s", "e", "r">>)
ClientIds == 1..MaxClients

\* ------------------------------------------------------------ Map helpers
MapSet(f, k, v) == [x \in (DOMAIN f) \cup {k} |-> IF x = k THEN v ELSE f[x]]
MapDelete(f, k) == [x \in (DOMAIN f) \ {k} |-> f[x]]
EmptyMap == [x \in {} |-> 0]

\* -------------------------------------------------------------- safeText
IsSpace(ch) == ch \in {" ", "\t", "\n"}

\* String.prototype.trim
RECURSIVE TrimLeft(_)
TrimLeft(s) ==
  IF s = <<>> THEN s
  ELSE IF IsSpace(Head(s).ch) THEN TrimLeft(Tail(s)) ELSE s

RECURSIVE TrimRight(_)
TrimRight(s) ==
  IF s = <<>> THEN s
  ELSE IF IsSpace(s[Len(s)].ch) THEN TrimRight(SubSeq(s, 1, Len(s) - 1)) ELSE s

Trim(s) == TrimRight(TrimLeft(s))

\* s.slice(0, n)
RECURSIVE Slice(_, _)
Slice(s, n) ==
  IF s = <<>> \/ n <= 0 THEN <<>>
  ELSE IF Head(s).n <= n THEN <<Head(s)>> \o Slice(Tail(s), n - Head(s).n)
       ELSE <<Run(Head(s).ch, n)>>

safeText(s) ==
  LET trimmed == Trim(s)
  IN IF trimmed = <<>> THEN <<>> ELSE Slice(trimmed, MAX_MSG_CHARS)

\* name = safeText(req.body.name) || 'User'
NameOf(raw) == IF safeText(raw) = <<>> THEN UserName ELSE safeText(raw)

\* code.length === 5 && /^[0-9]{5}$/.test(code)
IsRoomCode(code) ==
  StrLen(code) = 5 /\ \A i \in 1..Len(code) : code[i].ch \in Digits

\* ------------------------------------------------------------------ state
VARIABLES
  rooms,         \* Map code -> room.clients, a sequence of [id, name, lastSeen, events]
  pendingPolls,  \* Map clientId -> [res, timer]
  clientRooms,   \* Map clientId -> code
  timers,        \* armed poll timers: Map timer -> deadline
  polls,         \* parked poll requests: Map res -> [answered, client, closed]
  now,           \* Date.now()
  nextSweep,     \* when the setInterval timer of cleanup is due next
  nextClient,    \* next fresh client id
  nextRes,       \* next fresh response object
  last,          \* the response of the request handled by the last step
  sent,          \* the responses the last step wrote to parked polls, in order
  owed,          \* history: per member, the messages sent to its room and not yet returned
  entered,       \* history: per live room, who entered and whether anyone left
  left,          \* history: the clients that left their room by a leave request
  nSends,        \* history: number of messages broadcast
  rateLimitMap,  \* Map ip -> [count, windowStart]
  requests       \* history: per ip, the time and status of every STT/TTS request

vars == <<rooms, pendingPolls, clientRooms, timers, polls, now, nextSweep,
          nextClient, nextRes, last, sent, owed, entered, left, nSends,
          rateLimitMap, requests>>

\* the addresses (req.ip) that send STT and TTS requests
Ips == <<"a", "b">>

\* ---------------------------------------------------------- room helpers
IdsOf(clients) == [i \in 1..Len(clients) |-> clients[i].id]
HasClient(clients, id) == \E i \in 1..Len(clients) : clients[i].id = id
IndexOf(clients, id) == CHOOSE i \in 1..Len(clients) : clients[i].id = id
GetClient(clients, id) == clients[IndexOf(clients, id)]
RemoveClient(clients, id) ==
  LET keep == {i \in 1..Len(clients) : clients[i].id # id}
      F[i \in 0..Len(clients)] ==
        IF i = 0 THEN <<>>
        ELSE IF i \in keep THEN Append(F[i - 1], clients[i]) ELSE F[i - 1]
  IN F[Len(clients)]
NewClient(id, name, t) == [events |-> <<>>, id |-> id, lastSeen |-> t, name |-> name]

\* mutant: the newest member is missing from the snapshot
roomSnapshotStale(rms, roomCode) ==
  LET users == [i \in 1..(Len(rms[roomCode]) - 1) |->
                   [id |-> rms[roomCode][i].id, name |-> rms[roomCode][i].name]]
  IN [count |-> Len(users), room |-> roomCode, users |-> users]

roomSnapshot(rms, roomCode) ==
  LET users == [i \in 1..Len(rms[roomCode]) |->
                   [id |-> rms[roomCode][i].id, name |-> rms[roomCode][i].name]]
  IN [count |-> Len(users), room |-> roomCode, users |-> users]

\* mutant: the snapshot is nested in the event instead of spread into it
PresenceEventNested(snap) == [snapshot |-> snap, type |-> "presence"]

PresenceEvent(snap) ==
  [count |-> snap.count, room |-> snap.room, type |-> "presence", users |-> snap.users]

\* ------------------------------------------------ responses and requests
\* One shape for every response, so that any field can be read in any state:
\* the endpoint, the HTTP status and the JSON body.  status 0: the poll was
\* parked on response object `res` and has no response yet.
Resp(op) == [clientId |-> 0, count |-> 0, error |-> "", events |-> <<>>, op |-> op,
             res |-> 0, room |-> <<>>, status |-> 200, users |-> <<>>]

\* The part of the state that broadcast and flushClient work on.  Every
\* handler starts with nothing written to parked polls.
St == [pendingPolls |-> pendingPolls, polls |-> polls, rooms |-> rooms,
       sent |-> <<>>, timers |-> timers]

\* res.json({ events }) on the response object of a parked poll
Answer(st, res, events) ==
  [st EXCEPT !.polls[res].answered = @ + 1,
             !.sent = Append(@, [client |-> st.polls[res].client,
                                 events |-> events, res |-> res])]

\* mutant: the registration is deleted and its timer is left armed
UnregisterKeepsTimer(st, clientId) ==
  [st EXCEPT !.pendingPolls = MapDelete(@, clientId)]

\* clearTimeout(pending.timer); pendingPolls.delete(clientId)
Unregister(st, clientId) ==
  [st EXCEPT !.timers = MapDelete(@, st.pendingPolls[clientId].timer),
             !.pendingPolls = MapDelete(@, clientId)]

\* ------------------------------------------------ flushClient, broadcast
\* mutant: a pushed event is never flushed to the parked poll
flushClientNever(st, clientId) == st

\* mutant: slice(0) in the place of splice(0), the queue keeps its events
flushClientSlice(st, clientId) ==
  IF clientId \notin DOMAIN st.pendingPolls THEN st
  ELSE
    LET pending == st.pendingPolls[clientId]
        hits == {code \in DOMAIN st.rooms :
                   /\ HasClient(st.rooms[code], clientId)
                   /\ GetClient(st.rooms[code], clientId).events # <<>>}
    IN IF hits = {} THEN st
       ELSE
         LET code == CHOOSE code \in hits : TRUE
             i == IndexOf(st.rooms[code], clientId)
         IN Answer(Unregister(st, clientId), pending.res, st.rooms[code][i].events)

\* mutant: the timer of the answered poll is left armed
flushClientKeepsTimer(st, clientId) ==
  IF clientId \notin DOMAIN st.pendingPolls THEN st
  ELSE
    LET pending == st.pendingPolls[clientId]
        hits == {code \in DOMAIN st.rooms :
                   /\ HasClient(st.rooms[code], clientId)
                   /\ GetClient(st.rooms[code], clientId).events # <<>>}
    IN IF hits = {} THEN st
       ELSE
         LET code == CHOOSE code \in hits : TRUE
             i == IndexOf(st.rooms[code], clientId)
             events == st.rooms[code][i].events
             st1 == [st EXCEPT !.pendingPolls = MapDelete(@, clientId)]
             st2 == [st1 EXCEPT !.rooms[code][i].events = <<>>]
         IN Answer(st2, pending.res, events)

flushClient(st, clientId) ==
  IF clientId \notin DOMAIN st.pendingPolls THEN st
  ELSE
    LET pending == st.pendingPolls[clientId]
        hits == {code \in DOMAIN st.rooms :
                   /\ HasClient(st.rooms[code], clientId)
                   /\ GetClient(st.rooms[code], clientId).events # <<>>}
    IN IF hits = {} THEN st
       ELSE
         LET code == CHOOSE code \in hits : TRUE
             i == IndexOf(st.rooms[code], clientId)
             events == st.rooms[code][i].events
             st1 == Unregister(st, clientId)
             st2 == [st1 EXCEPT !.rooms[code][i].events = <<>>]
         IN Answer(st2, pending.res, events)

\* client.events.push(event); flushClient(clientId), from the i-th member on
RECURSIVE broadcastFrom(_, _, _, _)
\* mutant: unshift in the place of push
broadcastFromUnshift(st, roomCode, i, event) ==
  IF i > Len(st.rooms[roomCode]) THEN st
  ELSE
    LET pushed == [st EXCEPT !.rooms[roomCode][i].events = <<event>> \o @]
    IN broadcastFrom(flushClient(pushed, st.rooms[roomCode][i].id), roomCode, i + 1, event)

broadcastFrom(st, roomCode, i, event) ==
  IF i > Len(st.rooms[roomCode]) THEN st
  ELSE
    LET pushed == [st EXCEPT !.rooms[roomCode][i].events = Append(@, event)]
    IN broadcastFrom(flushClient(pushed, st.rooms[roomCode][i].id), roomCode, i + 1, event)

\* mutant: the loop runs over the members of every room
broadcastEveryRoom(st, roomCode, event) ==
  LET RECURSIVE over(_, _)
      over(s, codes) ==
        IF codes = {} THEN s
        ELSE LET code == CHOOSE code \in codes : TRUE
             IN over(broadcastFrom(s, code, 1, event), codes \ {code})
  IN over(st, DOMAIN st.rooms)

\* mutant: the first member of the room is passed over
broadcastSkipsFirst(st, roomCode, event) ==
  IF roomCode \notin DOMAIN st.rooms THEN st
  ELSE broadcastFrom(st, roomCode, 2, event)

broadcast(st, roomCode, event) ==
  IF roomCode \notin DOMAIN st.rooms THEN st
  ELSE broadcastFrom(st, roomCode, 1, event)

\* every client in the sequence can take one more event within the bound
CanPush(clients) == \A i \in 1..Len(clients) : Len(clients[i].events) < MaxQueue

\* A response object that is closed, is not registered and has no armed timer
\* is referenced by nothing any more: it is dropped from the state.
Referenced(st, res) ==
  \/ ~st.polls[res].closed
  \/ res \in DOMAIN st.timers
  \/ \E c \in DOMAIN st.pendingPolls : st.pendingPolls[c].res = res

Install(st) ==
  /\ rooms' = st.rooms
  /\ pendingPolls' = st.pendingPolls
  /\ timers' = st.timers
  /\ polls' = [res \in {r \in DOMAIN st.polls : Referenced(st, r)} |-> st.polls[res]]
  /\ sent' = st.sent

\* ------------------------------------------------------ history variables
\* owed[c]: the messages sent to c's room while c was a member that no poll
\* response has returned to c yet, oldest first.  It is kept from the room
\* membership and the responses alone, not from the queues.
MsgKey(from, fromName, text) == [from |-> from, fromName |-> fromName, text |-> text]
Lost == <<MsgKey(0, <<>>, <<>>)>>

RECURSIVE MsgsOf(_)
MsgsOf(events) ==
  IF events = <<>> THEN <<>>
  ELSE IF Head(events).type = "msg"
       THEN <<MsgKey(Head(events).from, Head(events).fromName, Head(events).text)>>
              \o MsgsOf(Tail(events))
       ELSE MsgsOf(Tail(events))

\* the events the step returned to clientId: the handler's own response and
\* the responses written to parked polls
RECURSIVE SentTo(_, _)
SentTo(responses, clientId) ==
  IF responses = <<>> THEN <<>>
  ELSE (IF Head(responses).client = clientId THEN Head(responses).events ELSE <<>>)
         \o SentTo(Tail(responses), clientId)

ReturnedTo(clientId, poller, resp, responses) ==
  (IF poller = clientId THEN resp.events ELSE <<>>) \o SentTo(responses, clientId)

Settle(q, returned) ==
  LET m == MsgsOf(returned)
  IN IF m = <<>> THEN q
     ELSE IF Len(m) <= Len(q) /\ SubSeq(q, 1, Len(m)) = m
          THEN SubSeq(q, Len(m) + 1, Len(q))
          ELSE Lost

\* poller: the client whose poll the step handled (0: none); recipients: the
\* members of the sender's room before a send; key: the message sent
Track(poller, recipients, key) ==
  owed' = [c \in ClientIds |->
             IF \A code \in DOMAIN rooms' : ~HasClient(rooms'[code], c) THEN <<>>
             ELSE Settle(IF c \in recipients THEN Append(owed[c], key) ELSE owed[c],
                         ReturnedTo(c, poller, last', sent'))]

\* The behaviours explored are those with at most MaxBudget registered
\* clients, parked polls, messages and clock ticks altogether.
Spent == (nextClient - 1) + (nextRes - 1) + nSends + (now \div Quantum)
InBudget == Spent < MaxBudget

\* ------------------------------------------------------------------- Init
Init ==
  /\ rooms = EmptyMap
  /\ pendingPolls = EmptyMap
  /\ clientRooms = EmptyMap
  /\ timers = EmptyMap
  /\ polls = EmptyMap
  /\ now = 0
  /\ nextSweep = CLEANUP_INTERVAL_MS
  /\ nextClient = 1
  /\ nextRes = 1
  /\ last = Resp("init")
  /\ sent = <<>>
  /\ owed = [c \in ClientIds |-> <<>>]
  /\ entered = EmptyMap
  /\ left = {}
  /\ nSends = 0
  /\ rateLimitMap = EmptyMap
  /\ requests = [i \in 1..Len(Ips) |-> <<>>]

\* a request that fails: the response, and nothing else changes
Fail(resp) ==
  /\ last' = resp
  /\ sent' = <<>>
  /\ UNCHANGED <<rooms, pendingPolls, clientRooms, timers, polls, now, nextSweep,
                 nextClient, nextRes, owed, entered, left, nSends>>

\* ------------------------------------------------------------- createRoom
\* The outcomes of createRoom(requested): a new code, or the thrown message.
\* Without a requested code, each of the 10000 draws of makeRoomCode is any
\* code; the loop returns a free one, or gives up if every draw hit a live room.
\* mutant: only the length of a requested code is tested
createRoomAnyChars(requested) ==
  IF requested # <<>> THEN
    IF StrLen(requested) # 5
      THEN {[code |-> <<>>, error |-> "Room code must be 5 digits.", ok |-> FALSE]}
    ELSE IF requested \in DOMAIN rooms
      THEN {[code |-> <<>>, error |-> "Room code already in use.", ok |-> FALSE]}
    ELSE {[code |-> requested, error |-> "", ok |-> TRUE]}
  ELSE
    {[code |-> code, error |-> "", ok |-> TRUE] : code \in GenCodes \ DOMAIN rooms}
      \cup (IF DOMAIN rooms # {}
            THEN {[code |-> <<>>, error |-> "Could not create room", ok |-> FALSE]}
            ELSE {})

\* mutant: a requested code is not looked up in rooms
createRoomUnchecked(requested) ==
  IF requested # <<>> THEN
    IF ~IsRoomCode(requested)
      THEN {[code |-> <<>>, error |-> "Room code must be 5 digits.", ok |-> FALSE]}
    ELSE {[code |-> requested, error |-> "", ok |-> TRUE]}
  ELSE
    {[code |-> code, error |-> "", ok |-> TRUE] : code \in GenCodes \ DOMAIN rooms}
      \cup (IF DOMAIN rooms # {}
            THEN {[code |-> <<>>, error |-> "Could not create room", ok |-> FALSE]}
            ELSE {})

createRoom(requested) ==
  IF requested # <<>> THEN
    IF ~IsRoomCode(requested)
      THEN {[code |-> <<>>, error |-> "Room code must be 5 digits.", ok |-> FALSE]}
    ELSE IF requested \in DOMAIN rooms
      THEN {[code |-> <<>>, error |-> "Room code already in use.", ok |-> FALSE]}
    ELSE {[code |-> requested, error |-> "", ok |-> TRUE]}
  ELSE
    {[code |-> code, error |-> "", ok |-> TRUE] : code \in GenCodes \ DOMAIN rooms}
      \cup (IF DOMAIN rooms # {}
            THEN {[code |-> <<>>, error |-> "Could not create room", ok |-> FALSE]}
            ELSE {})

\* ----------------------------------------------- POST /api/room/create
\* mutant: the new client is not entered in the session table
CreateNoSession(rawRoom) ==
  \E out \in createRoom(safeText(rawRoom)) :
    IF ~out.ok THEN
      Fail([Resp("create") EXCEPT !.status = 400, !.error = out.error])
    ELSE
      /\ nextClient <= MaxClients
      /\ InBudget
      /\ LET clientId == nextClient
             roomCode == out.code
             rooms1 == MapSet(rooms, roomCode,
                               <<NewClient(clientId, NameOf(RawNameOf(clientId)), now)>>)
             snapshot == roomSnapshot(rooms1, roomCode)
             queued == << [clientId |-> clientId, type |-> "hello"],
                          [clientId |-> clientId, room |-> roomCode, type |-> "created"],
                          PresenceEvent(snapshot) >>
         IN /\ rooms' = [rooms1 EXCEPT ![roomCode][1].events = queued]
            /\ clientRooms' = clientRooms
            /\ nextClient' = nextClient + 1
            /\ entered' = MapSet(entered, roomCode, [ids |-> <<clientId>>, left |-> FALSE])
            /\ last' = [Resp("create") EXCEPT !.clientId = clientId, !.room = roomCode,
                          !.users = snapshot.users, !.count = snapshot.count]
      /\ sent' = <<>>
      /\ Track(0, {}, <<>>)
      /\ UNCHANGED <<pendingPolls, timers, polls, now, nextSweep, nextRes, left, nSends>>

Create(rawRoom) ==
  \E out \in createRoom(safeText(rawRoom)) :
    IF ~out.ok THEN
      Fail([Resp("create") EXCEPT !.status = 400, !.error = out.error])
    ELSE
      /\ nextClient <= MaxClients
      /\ InBudget
      /\ LET clientId == nextClient
             roomCode == out.code
             rooms1 == MapSet(rooms, roomCode,
                               <<NewClient(clientId, NameOf(RawNameOf(clientId)), now)>>)
             snapshot == roomSnapshot(rooms1, roomCode)
             queued == << [clientId |-> clientId, type |-> "hello"],
                          [clientId |-> clientId, room |-> roomCode, type |-> "created"],
                          PresenceEvent(snapshot) >>
         IN /\ rooms' = [rooms1 EXCEPT ![roomCode][1].events = queued]
            /\ clientRooms' = MapSet(clientRooms, clientId, roomCode)
            /\ nextClient' = nextClient + 1
            /\ entered' = MapSet(entered, roomCode, [ids |-> <<clientId>>, left |-> FALSE])
            /\ last' = [Resp("create") EXCEPT !.clientId = clientId, !.room = roomCode,
                          !.users = snapshot.users, !.count = snapshot.count]
      /\ sent' = <<>>
      /\ Track(0, {}, <<>>)
      /\ UNCHANGED <<pendingPolls, timers, polls, now, nextSweep, nextRes, left, nSends>>

\* ------------------------------------------------- POST /api/room/join
\* mutant: the session is stored before the room is looked up
JoinSessionFirst(rawRoom) ==
  LET roomCode == safeText(rawRoom)
  IN IF roomCode = <<>> \/ ~IsRoomCode(roomCode) THEN
       Fail([Resp("join") EXCEPT !.status = 400, !.error = "Room code must be 5 digits."])
     ELSE IF roomCode \notin DOMAIN rooms THEN
       /\ nextClient <= MaxClients
       /\ clientRooms' = MapSet(clientRooms, nextClient, roomCode)
       /\ last' = [Resp("join") EXCEPT !.status = 404, !.error = "Room not found."]
       /\ sent' = <<>>
       /\ UNCHANGED <<rooms, pendingPolls, timers, polls, now, nextSweep,
                      nextClient, nextRes, owed, entered, left, nSends>>
     ELSE
       /\ nextClient <= MaxClients
       /\ InBudget
       /\ CanPush(rooms[roomCode])
       /\ LET clientId == nextClient
              n == Len(rooms[roomCode]) + 1
              rooms1 == [rooms EXCEPT ![roomCode] =
                           Append(@, NewClient(clientId, NameOf(RawNameOf(clientId)), now))]
              rooms2 == [rooms1 EXCEPT ![roomCode][n].events =
                           << [clientId |-> clientId, type |-> "hello"],
                              [clientId |-> clientId, room |-> roomCode, type |-> "joined"] >>]
              snapshot == roomSnapshot(rooms2, roomCode)
              st == broadcast([St EXCEPT !.rooms = rooms2], roomCode, PresenceEvent(snapshot))
          IN /\ Install(st)
             /\ clientRooms' = MapSet(clientRooms, clientId, roomCode)
             /\ nextClient' = nextClient + 1
             /\ entered' = [entered EXCEPT ![roomCode].ids = Append(@, clientId)]
             /\ last' = [Resp("join") EXCEPT !.clientId = clientId, !.room = roomCode,
                           !.users = snapshot.users, !.count = snapshot.count]
       /\ Track(0, {}, <<>>)
       /\ UNCHANGED <<now, nextSweep, nextRes, left, nSends>>

\* mutant: presence is broadcast before hello and joined are queued
JoinPresenceFirst(rawRoom) ==
  LET roomCode == safeText(rawRoom)
  IN IF roomCode = <<>> \/ ~IsRoomCode(roomCode) THEN
       Fail([Resp("join") EXCEPT !.status = 400, !.error = "Room code must be 5 digits."])
     ELSE IF roomCode \notin DOMAIN rooms THEN
       Fail([Resp("join") EXCEPT !.status = 404, !.error = "Room not found."])
     ELSE
       /\ nextClient <= MaxClients
       /\ InBudget
       /\ CanPush(rooms[roomCode])
       /\ LET clientId == nextClient
              n == Len(rooms[roomCode]) + 1
              rooms1 == [rooms EXCEPT ![roomCode] =
                           Append(@, NewClient(clientId, NameOf(RawNameOf(clientId)), now))]
              snapshot == roomSnapshot(rooms1, roomCode)
              st1 == broadcast([St EXCEPT !.rooms = rooms1], roomCode, PresenceEvent(snapshot))
              st == [st1 EXCEPT !.rooms[roomCode][n].events = @ \o
                           << [clientId |-> clientId, type |-> "hello"],
                              [clientId |-> clientId, room |-> roomCode, type |-> "joined"] >>]
          IN /\ Install(st)
             /\ clientRooms' = MapSet(clientRooms, clientId, roomCode)
             /\ nextClient' = nextClient + 1
             /\ entered' = [entered EXCEPT ![roomCode].ids = Append(@, clientId)]
             /\ last' = [Resp("join") EXCEPT !.clientId = clientId, !.room = roomCode,
                           !.users = snapshot.users, !.count = snapshot.count]
       /\ Track(0, {}, <<>>)
       /\ UNCHANGED <<now, nextSweep, nextRes, left, nSends>>

Join(rawRoom) ==
  LET roomCode == safeText(rawRoom)
  IN IF roomCode = <<>> \/ ~IsRoomCode(roomCode) THEN
       Fail([Resp("join") EXCEPT !.status = 400, !.error = "Room code must be 5 digits."])
     ELSE IF roomCode \notin DOMAIN rooms THEN
       Fail([Resp("join") EXCEPT !.status = 404, !.error = "Room not found."])
     ELSE
       /\ nextClient <= MaxClients
       /\ InBudget
       /\ CanPush(rooms[roomCode])
       /\ LET clientId == nextClient
              n == Len(rooms[roomCode]) + 1
              rooms1 == [rooms EXCEPT ![roomCode] =
                           Append(@, NewClient(clientId, NameOf(RawNameOf(clientId)), now))]
              rooms2 == [rooms1 EXCEPT ![roomCode][n].events =
                           << [clientId |-> clientId, type |-> "hello"],
                              [clientId |-> clientId, room |-> roomCode, type |-> "joined"] >>]
              snapshot == roomSnapshot(rooms2, roomCode)
              st == broadcast([St EXCEPT !.rooms = rooms2], roomCode, PresenceEvent(snapshot))
          IN /\ Install(st)
             /\ clientRooms' = MapSet(clientRooms, clientId, roomCode)
             /\ nextClient' = nextClient + 1
             /\ entered' = [entered EXCEPT ![roomCode].ids = Append(@, clientId)]
             /\ last' = [Resp("join") EXCEPT !.clientId = clientId, !.room = roomCode,
                           !.users = snapshot.users, !.count = snapshot.count]
       /\ Track(0, {}, <<>>)
       /\ UNCHANGED <<now, nextSweep, nextRes, left, nSends>>

\* ------------------------------------------------ POST /api/room/leave
\* mutant: the session entry is kept
leaveSessionKept(sessions, clientId) == sessions

\* clientRooms.delete(clientId)
leaveSession(sessions, clientId) == MapDelete(sessions, clientId)

\* mutant: the room is kept when its last member has left
leaveRoomKept(st, roomCode) ==
  IF Len(st.rooms[roomCode]) > 0
  THEN broadcast(st, roomCode, PresenceEvent(roomSnapshot(st.rooms, roomCode)))
  ELSE st

\* mutant: the presence event is broadcast twice
leaveRoomTwice(st, roomCode) ==
  IF Len(st.rooms[roomCode]) > 0
  THEN broadcast(broadcast(st, roomCode, PresenceEvent(roomSnapshot(st.rooms, roomCode))),
                 roomCode, PresenceEvent(roomSnapshot(st.rooms, roomCode)))
  ELSE [st EXCEPT !.rooms = MapDelete(@, roomCode)]

\* "Broadcast updated presence": to the members left, or delete the room
leaveRoom(st, roomCode) ==
  IF Len(st.rooms[roomCode]) > 0
  THEN broadcast(st, roomCode, PresenceEvent(roomSnapshot(st.rooms, roomCode)))
  ELSE [st EXCEPT !.rooms = MapDelete(@, roomCode)]

Leave(clientId) ==
  /\ IF clientId \in DOMAIN clientRooms /\ clientRooms[clientId] \in DOMAIN rooms THEN
       LET roomCode == clientRooms[clientId]
           wasMember == HasClient(rooms[roomCode], clientId)
           st1 == [St EXCEPT !.rooms[roomCode] = RemoveClient(@, clientId)]
           st2 == IF clientId \in DOMAIN st1.pendingPolls
                  THEN Unregister(st1, clientId) ELSE st1
           st3 == leaveRoom(st2, roomCode)
       IN /\ CanPush(st1.rooms[roomCode])
          /\ Install(st3)
          /\ clientRooms' = leaveSession(clientRooms, clientId)
          /\ entered' = IF roomCode \in DOMAIN st3.rooms
                        THEN [entered EXCEPT ![roomCode].left = @ \/ wasMember]
                        ELSE MapDelete(entered, roomCode)
          /\ left' = IF wasMember THEN left \cup {clientId} ELSE left
     ELSE
       /\ sent' = <<>>
       /\ UNCHANGED <<rooms, pendingPolls, clientRooms, timers, polls, entered, left>>
  /\ last' = Resp("leave")
  /\ Track(0, {}, <<>>)
  /\ UNCHANGED <<now, nextSweep, nextClient, nextRes, nSends>>

\* ------------------------------------------------- POST /api/room/send
\* mutant: the text is not tested
sendErrorAnyText(clientId, text) ==
  IF clientId \notin DOMAIN clientRooms \/ clientRooms[clientId] \notin DOMAIN rooms
    THEN "Not in a room."
  ELSE IF ~HasClient(rooms[clientRooms[clientId]], clientId)
    THEN "Client not found."
  ELSE ""

\* mutant: a missing session is reported with the message of the text test
sendErrorMixed(clientId, text) ==
  IF text = <<>> THEN "No text provided."
  ELSE IF clientId \notin DOMAIN clientRooms \/ clientRooms[clientId] \notin DOMAIN rooms
    THEN "No text provided."
  ELSE IF ~HasClient(rooms[clientRooms[clientId]], clientId)
    THEN "Client not found."
  ELSE ""

\* the early returns of the handler: the error message, "" if there is none
sendError(clientId, text) ==
  IF text = <<>> THEN "No text provided."
  ELSE IF clientId \notin DOMAIN clientRooms \/ clientRooms[clientId] \notin DOMAIN rooms
    THEN "Not in a room."
  ELSE IF ~HasClient(rooms[clientRooms[clientId]], clientId)
    THEN "Client not found."
  ELSE ""

\* mutant: a sender that is not in the room of its session sends as 'User'
SendAnySession(clientId, rawText) ==
  LET text == safeText(rawText)
  IN IF sendError(clientId, text) \notin {"", "Client not found."} THEN
       Fail([Resp("send") EXCEPT !.status = 400, !.error = sendError(clientId, text)])
     ELSE
       LET roomCode == clientRooms[clientId]
           name == IF HasClient(rooms[roomCode], clientId)
                   THEN GetClient(rooms[roomCode], clientId).name ELSE UserName
           payload == [from |-> clientId, fromName |-> name, room |-> roomCode,
                       text |-> text, ts |-> now, type |-> "msg"]
       IN /\ nSends < MaxSends
          /\ InBudget
          /\ CanPush(rooms[roomCode])
          /\ Install(broadcast(St, roomCode, payload))
          /\ last' = Resp("send")
          /\ nSends' = nSends + 1
          /\ Track(0, {rooms[roomCode][i].id : i \in 1..Len(rooms[roomCode])},
                   MsgKey(clientId, name, Slice(Trim(rawText), MAX_MSG_CHARS)))
          /\ UNCHANGED <<clientRooms, now, nextSweep, nextClient, nextRes, entered, left>>

\* mutant: a send counts as activity of the sender
SendTouches(clientId, rawText) ==
  LET text == safeText(rawText)
  IN IF sendError(clientId, text) # "" THEN
       Fail([Resp("send") EXCEPT !.status = 400, !.error = sendError(clientId, text)])
     ELSE
       LET roomCode == clientRooms[clientId]
           client == GetClient(rooms[roomCode], clientId)
           i == IndexOf(rooms[roomCode], clientId)
           payload == [from |-> clientId, fromName |-> client.name, room |-> roomCode,
                       text |-> text, ts |-> now, type |-> "msg"]
       IN /\ nSends < MaxSends
          /\ InBudget
          /\ CanPush(rooms[roomCode])
          /\ Install(broadcast([St EXCEPT !.rooms[roomCode][i].lastSeen = now],
                               roomCode, payload))
          /\ last' = Resp("send")
          /\ nSends' = nSends + 1
          /\ Track(0, {rooms[roomCode][j].id : j \in 1..Len(rooms[roomCode])},
                   MsgKey(clientId, client.name, Slice(Trim(rawText), MAX_MSG_CHARS)))
          /\ UNCHANGED <<clientRooms, now, nextSweep, nextClient, nextRes, entered, left>>

Send(clientId, rawText) ==
  LET text == safeText(rawText)
  IN IF sendError(clientId, text) # "" THEN
       Fail([Resp("send") EXCEPT !.status = 400, !.error = sendError(clientId, text)])
     ELSE
       LET roomCode == clientRooms[clientId]
           client == GetClient(rooms[roomCode], clientId)
           payload == [from |-> clientId, fromName |-> client.name, room |-> roomCode,
                       text |-> text, ts |-> now, type |-> "msg"]
       IN /\ nSends < MaxSends
          /\ InBudget
          /\ CanPush(rooms[roomCode])
          /\ Install(broadcast(St, roomCode, payload))
          /\ last' = Resp("send")
          /\ nSends' = nSends + 1
          /\ Track(0, {rooms[roomCode][i].id : i \in 1..Len(rooms[roomCode])},
                   MsgKey(clientId, client.name, Slice(Trim(rawText), MAX_MSG_CHARS)))
          /\ UNCHANGED <<clientRooms, now, nextSweep, nextClient, nextRes, entered, left>>

\* -------------------------------------------------- GET /api/room/poll
\* the early returns of the handler: the error message, "" if there is none
pollError(clientId) ==
  IF clientId \notin DOMAIN clientRooms \/ clientRooms[clientId] \notin DOMAIN rooms
    THEN "Not in a room."
  ELSE IF ~HasClient(rooms[clientRooms[clientId]], clientId)
    THEN "Client not found."
  ELSE ""

\* mutant: the parked poll is dropped without a response
supersedeSilent(st, clientId) ==
  IF clientId \in DOMAIN st.pendingPolls
  THEN [st EXCEPT !.timers = MapDelete(@, st.pendingPolls[clientId].timer)]
  ELSE st

\* mutant: the parked poll is answered and its timer is left armed
supersedeKeepsTimer(st, clientId) ==
  IF clientId \in DOMAIN st.pendingPolls
  THEN Answer(st, st.pendingPolls[clientId].res, <<>>)
  ELSE st

\* "Cancel any existing poll for this client": the parked poll of clientId,
\* if any, gets its timer cleared and an empty response
supersede(st, clientId) ==
  IF clientId \in DOMAIN st.pendingPolls
  THEN Answer([st EXCEPT !.timers = MapDelete(@, st.pendingPolls[clientId].timer)],
              st.pendingPolls[clientId].res, <<>>)
  ELSE st

\* mutant: the timer is armed before the client is looked up
PollArmsFirst(clientId) ==
  IF pollError(clientId) # "" THEN
       /\ nextRes <= MaxPolls
       /\ Install([St EXCEPT !.polls = MapSet(@, nextRes, [answered |-> 1,
                                                            client |-> clientId,
                                                            closed |-> FALSE]),
                             !.timers = MapSet(@, nextRes, now + POLL_TIMEOUT_MS)])
       /\ nextRes' = nextRes + 1
       /\ last' = [Resp("poll") EXCEPT !.status = 400, !.error = pollError(clientId)]
       /\ UNCHANGED <<clientRooms, now, nextSweep, nextClient, owed, entered, left, nSends>>
     ELSE
       LET roomCode == clientRooms[clientId]
           i == IndexOf(rooms[roomCode], clientId)
           events == rooms[roomCode][i].events
           res == nextRes
       IN /\ IF events # <<>> THEN
               /\ rooms' = [rooms EXCEPT ![roomCode][i].lastSeen = now,
                                         ![roomCode][i].events = <<>>]
               /\ last' = [Resp("poll") EXCEPT !.events = events]
               /\ sent' = <<>>
               /\ UNCHANGED <<pendingPolls, timers, polls, nextRes>>
             ELSE
               /\ res <= MaxPolls
               /\ InBudget
               /\ LET st0 == [St EXCEPT
                                !.rooms[roomCode][i].lastSeen = now,
                                !.polls = MapSet(@, res, [answered |-> 0,
                                                          client |-> clientId,
                                                          closed |-> FALSE]),
                                !.timers = MapSet(@, res, now + POLL_TIMEOUT_MS)]
                      st1 == supersede(st0, clientId)
                      st2 == [st1 EXCEPT !.pendingPolls =
                                MapSet(@, clientId, [res |-> res, timer |-> res])]
                  IN Install(st2)
               /\ nextRes' = nextRes + 1
               /\ last' = [Resp("poll") EXCEPT !.status = 0, !.res = res]
          /\ Track(clientId, {}, <<>>)
          /\ UNCHANGED <<clientRooms, now, nextSweep, nextClient, entered, left, nSends>>

\* mutant: the response returns the queue and the queue keeps its events
PollKeepsQueue(clientId) ==
  IF pollError(clientId) # "" THEN
       Fail([Resp("poll") EXCEPT !.status = 400, !.error = pollError(clientId)])
     ELSE
       LET roomCode == clientRooms[clientId]
           i == IndexOf(rooms[roomCode], clientId)
           events == rooms[roomCode][i].events
           res == nextRes
       IN /\ IF events # <<>> THEN
               /\ rooms' = [rooms EXCEPT ![roomCode][i].lastSeen = now]
               /\ last' = [Resp("poll") EXCEPT !.events = events]
               /\ sent' = <<>>
               /\ UNCHANGED <<pendingPolls, timers, polls, nextRes>>
             ELSE
               /\ res <= MaxPolls
               /\ InBudget
               /\ LET st0 == [St EXCEPT
                                !.rooms[roomCode][i].lastSeen = now,
                                !.polls = MapSet(@, res, [answered |-> 0,
                                                          client |-> clientId,
                                                          closed |-> FALSE]),
                                !.timers = MapSet(@, res, now + POLL_TIMEOUT_MS)]
                      st1 == supersede(st0, clientId)
                      st2 == [st1 EXCEPT !.pendingPolls =
                                MapSet(@, clientId, [res |-> res, timer |-> res])]
                  IN Install(st2)
               /\ nextRes' = nextRes + 1
               /\ last' = [Resp("poll") EXCEPT !.status = 0, !.res = res]
          /\ Track(clientId, {}, <<>>)
          /\ UNCHANGED <<clientRooms, now, nextSweep, nextClient, entered, left, nSends>>

\* mutant: a poll that returns events at once does not refresh lastSeen
PollDrainNoTouch(clientId) ==
  IF pollError(clientId) # "" THEN
       Fail([Resp("poll") EXCEPT !.status = 400, !.error = pollError(clientId)])
     ELSE
       LET roomCode == clientRooms[clientId]
           i == IndexOf(rooms[roomCode], clientId)
           events == rooms[roomCode][i].events
           res == nextRes
       IN /\ IF events # <<>> THEN
               /\ rooms' = [rooms EXCEPT ![roomCode][i].events = <<>>]
               /\ last' = [Resp("poll") EXCEPT !.events = events]
               /\ sent' = <<>>
               /\ UNCHANGED <<pendingPolls, timers, polls, nextRes>>
             ELSE
               /\ res <= MaxPolls
               /\ InBudget
               /\ LET st0 == [St EXCEPT
                                !.rooms[roomCode][i].lastSeen = now,
                                !.polls = MapSet(@, res, [answered |-> 0,
                                                          client |-> clientId,
                                                          closed |-> FALSE]),
                                !.timers = MapSet(@, res, now + POLL_TIMEOUT_MS)]
                      st1 == supersede(st0, clientId)
                      st2 == [st1 EXCEPT !.pendingPolls =
                                MapSet(@, clientId, [res |-> res, timer |-> res])]
                  IN Install(st2)
               /\ nextRes' = nextRes + 1
               /\ last' = [Resp("poll") EXCEPT !.status = 0, !.res = res]
          /\ Track(clientId, {}, <<>>)
          /\ UNCHANGED <<clientRooms, now, nextSweep, nextClient, entered, left, nSends>>

Poll(clientId) ==
  IF pollError(clientId) # "" THEN
       Fail([Resp("poll") EXCEPT !.status = 400, !.error = pollError(clientId)])
     ELSE
       LET roomCode == clientRooms[clientId]
           i == IndexOf(rooms[roomCode], clientId)
           events == rooms[roomCode][i].events
           res == nextRes
       IN /\ IF events # <<>> THEN
               /\ rooms' = [rooms EXCEPT ![roomCode][i].lastSeen = now,
                                         ![roomCode][i].events = <<>>]
               /\ last' = [Resp("poll") EXCEPT !.events = events]
               /\ sent' = <<>>
               /\ UNCHANGED <<pendingPolls, timers, polls, nextRes>>
             ELSE
               /\ res <= MaxPolls
               /\ InBudget
               /\ LET st0 == [St EXCEPT
                                !.rooms[roomCode][i].lastSeen = now,
                                !.polls = MapSet(@, res, [answered |-> 0,
                                                          client |-> clientId,
                                                          closed |-> FALSE]),
                                !.timers = MapSet(@, res, now + POLL_TIMEOUT_MS)]
                      st1 == supersede(st0, clientId)
                      st2 == [st1 EXCEPT !.pendingPolls =
                                MapSet(@, clientId, [res |-> res, timer |-> res])]
                  IN Install(st2)
               /\ nextRes' = nextRes + 1
               /\ last' = [Resp("poll") EXCEPT !.status = 0, !.res = res]
          /\ Track(clientId, {}, <<>>)
          /\ UNCHANGED <<clientRooms, now, nextSweep, nextClient, entered, left, nSends>>

\* mutant: the callback answers but leaves the registration
TimeoutKeepsEntry(res) ==
  /\ res \in DOMAIN timers
  /\ timers[res] <= now
  /\ Install(Answer([St EXCEPT !.timers = MapDelete(@, res)], res, <<>>))
  /\ last' = Resp("timeout")
  /\ Track(0, {}, <<>>)
  /\ UNCHANGED <<clientRooms, now, nextSweep, nextClient, nextRes, entered, left, nSends>>

\* the setTimeout callback of parked poll `res`
Timeout(res) ==
  /\ res \in DOMAIN timers
  /\ timers[res] <= now
  /\ Install(Answer([St EXCEPT !.timers = MapDelete(@, res),
                               !.pendingPolls = MapDelete(@, polls[res].client)],
                    res, <<>>))
  /\ last' = Resp("timeout")
  /\ Track(0, {}, <<>>)
  /\ UNCHANGED <<clientRooms, now, nextSweep, nextClient, nextRes, entered, left, nSends>>

\* mutant: the handler does not compare the registered response with its own
CloseAny(res) ==
  /\ res \in DOMAIN polls
  /\ ~polls[res].closed
  /\ LET clientId == polls[res].client
         st0 == [St EXCEPT !.polls[res].closed = TRUE]
     IN Install(IF clientId \in DOMAIN pendingPolls
                THEN Unregister(st0, clientId) ELSE st0)
  /\ last' = Resp("close")
  /\ Track(0, {}, <<>>)
  /\ UNCHANGED <<clientRooms, now, nextSweep, nextClient, nextRes, entered, left, nSends>>

\* the req.on('close') handler of parked poll `res`
Close(res) ==
  /\ res \in DOMAIN polls
  /\ ~polls[res].closed
  /\ LET clientId == polls[res].client
         st0 == [St EXCEPT !.polls[res].closed = TRUE]
     IN Install(IF clientId \in DOMAIN pendingPolls /\ pendingPolls[clientId].res = res
                THEN Unregister(st0, clientId) ELSE st0)
  /\ last' = Resp("close")
  /\ Track(0, {}, <<>>)
  /\ UNCHANGED <<clientRooms, now, nextSweep, nextClient, nextRes, entered, left, nSends>>

\* ---------------------------------------------------------------- cleanup
\* mutant: the client timeout is shorter than the poll timeout
IsStaleAtOnce(client, t) == t - client.lastSeen >= 0

\* mutant: no client is ever stale
IsStaleNever(client, t) == FALSE

\* mutant: a client seen exactly CLIENT_TIMEOUT_MS ago is stale
IsStaleInclusive(client, t) == t - client.lastSeen >= CLIENT_TIMEOUT_MS

IsStale(client, t) == t - client.lastSeen > CLIENT_TIMEOUT_MS

RECURSIVE evict(_, _, _, _)
evict(st, roomCode, ids, t) ==
  IF ids = <<>> THEN st
  ELSE
    LET clientId == Head(ids)
        client == GetClient(st.rooms[roomCode], clientId)
        st1 == IF IsStale(client, t)
               THEN LET gone == [st EXCEPT !.rooms[roomCode] = RemoveClient(@, clientId)]
                    IN IF clientId \in DOMAIN gone.pendingPolls
                       THEN Unregister(gone, clientId) ELSE gone
               ELSE st
    IN evict(st1, roomCode, Tail(ids), t)

\* mutant: a room the sweep emptied is kept
cleanupRoomKeepsEmpty(st, roomCode, t) ==
  LET st1 == evict(st, roomCode, IdsOf(st.rooms[roomCode]), t)
  IN IF Len(st1.rooms[roomCode]) > 0
     THEN broadcast(st1, roomCode, PresenceEvent(roomSnapshot(st1.rooms, roomCode)))
     ELSE st1

cleanupRoom(st, roomCode, t) ==
  LET st1 == evict(st, roomCode, IdsOf(st.rooms[roomCode]), t)
      st2 == IF Len(st1.rooms[roomCode]) > 0
             THEN broadcast(st1, roomCode, PresenceEvent(roomSnapshot(st1.rooms, roomCode)))
             ELSE st1
  IN IF Len(st2.rooms[roomCode]) = 0
     THEN [st2 EXCEPT !.rooms = MapDelete(@, roomCode)]
     ELSE st2

RECURSIVE cleanupRooms(_, _, _)
cleanupRooms(st, codes, t) ==
  IF codes = {} THEN st
  ELSE LET roomCode == CHOOSE code \in codes : TRUE
       IN cleanupRooms(cleanupRoom(st, roomCode, t), codes \ {roomCode}, t)

\* the sweep is due, and the queues of the members that stay have room for
\* the presence event
CleanupDue ==
  /\ nextSweep <= now
  /\ \A roomCode \in DOMAIN rooms :
       CanPush(SelectSeq(rooms[roomCode], LAMBDA client : ~IsStale(client, now)))

\* the setInterval(cleanup, 30000) callback
Cleanup ==
  /\ CleanupDue
  /\ nextSweep' = now + CLEANUP_INTERVAL_MS
  /\ LET st == cleanupRooms(St, DOMAIN rooms, now)
     IN /\ Install(st)
        /\ entered' = [roomCode \in DOMAIN st.rooms |->
                         [entered[roomCode] EXCEPT !.left =
                            @ \/ \E i \in 1..Len(rooms[roomCode]) :
                                    IsStale(rooms[roomCode][i], now)]]
  /\ last' = Resp("cleanup")
  /\ Track(0, {}, <<>>)
  /\ UNCHANGED <<clientRooms, now, nextClient, nextRes, left, nSends>>

\* ------------------------------------------------------------------ clock
\* Node runs a due timer before it runs anything that is due later, so the
\* clock does not pass the deadline of an armed timer.
Tick ==
  /\ now < MaxTicks * Quantum
  /\ InBudget
  /\ \A t \in DOMAIN timers : timers[t] > now
  /\ nextSweep > now
  /\ now' = now + Quantum
  /\ last' = Resp("tick")
  /\ sent' = <<>>
  /\ UNCHANGED <<rooms, pendingPolls, clientRooms, timers, polls, nextSweep,
                 nextClient, nextRes, owed, entered, left, nSends>>

\* ---------------------------------------------------------- rate limiter
\* The instants at which STT/TTS requests arrive and the limiter's cleanup
\* runs: the start, the last instant of a window begun at the start, the
\* first instant after it, and the first cleanup that finds an old entry.
RateInstants == <<0, RATE_LIMIT_WINDOW_MS, RATE_LIMIT_WINDOW_MS + 1,
                  3 * RATE_LIMIT_WINDOW_MS>>

\* mutant: the count is compared before it is incremented
checkRateLimitPostIncrement(map, ip, t) ==
  LET entry == IF ip \notin DOMAIN map \/ t - map[ip].windowStart > RATE_LIMIT_WINDOW_MS
               THEN [count |-> 0, windowStart |-> t]
               ELSE map[ip]
  IN [map |-> MapSet(map, ip, [entry EXCEPT !.count = @ + 1]),
      ok |-> entry.count <= RATE_LIMIT_MAX_REQUESTS]

\* checkRateLimit(ip) at time t: the map after the call and the value returned
checkRateLimit(map, ip, t) ==
  LET entry == IF ip \notin DOMAIN map \/ t - map[ip].windowStart > RATE_LIMIT_WINDOW_MS
               THEN [count |-> 0, windowStart |-> t]
               ELSE map[ip]
  IN [map |-> MapSet(map, ip, [entry EXCEPT !.count = @ + 1]),
      ok |-> entry.count + 1 <= RATE_LIMIT_MAX_REQUESTS]

\* the bound of the requests of the i-th address
RequestsLeft(i) == Len(requests[i]) < (IF i = 1 THEN MaxRequests ELSE MaxOtherRequests)

\* The first lines of the STT and of the TTS handler: a request the limiter
\* refuses is answered 429 at once; any other is processed (the converters
\* are outside the model: the response of a processed request is 200).
Limited(op, i) ==
  LET r == checkRateLimit(rateLimitMap, Ips[i], now)
      status == IF r.ok THEN 200 ELSE 429
  IN /\ rateLimitMap' = r.map
     /\ requests' = [requests EXCEPT ![i] = Append(@, [at |-> now, status |-> status])]
     /\ last' = [Resp(op) EXCEPT !.status = status,
                   !.error = IF r.ok THEN "" ELSE "Too many requests. Please wait."]
     /\ UNCHANGED <<rooms, pendingPolls, clientRooms, timers, polls, now, nextSweep,
                    nextClient, nextRes, sent, owed, entered, left, nSends>>

\* POST /api/stt
Stt(i) ==
  /\ RequestsLeft(i)
  /\ Limited("stt", i)

\* POST /api/tts
Tts(i) ==
  /\ RequestsLeft(i)
  /\ Limited("tts", i)

\* the setInterval callback that drops old entries; it is due every
\* RATE_LIMIT_WINDOW_MS after the start
RateCleanup ==
  /\ now > 0
  /\ now % RATE_LIMIT_WINDOW_MS = 0
  /\ rateLimitMap' = [ip \in {k \in DOMAIN rateLimitMap :
                                ~(now - rateLimitMap[k].windowStart
                                    > RATE_LIMIT_WINDOW_MS * 2)} |-> rateLimitMap[ip]]
  /\ UNCHANGED <<rooms, pendingPolls, clientRooms, timers, polls, now, nextSweep,
                 nextClient, nextRes, last, sent, owed, entered, left, nSends, requests>>

RateTick ==
  /\ \E k \in 1..(Len(RateInstants) - 1) :
       now = RateInstants[k] /\ now' = RateInstants[k + 1]
  /\ UNCHANGED <<rooms, pendingPolls, clientRooms, timers, polls, nextSweep,
                 nextClient, nextRes, last, sent, owed, entered, left, nSends,
                 rateLimitMap, requests>>

RateNext ==
  \/ \E i \in 1..Len(Ips) : Stt(i)
  \/ \E i \in 1..Len(Ips) : Tts(i)
  \/ RateCleanup
  \/ RateTick

RateSpec == Init /\ [][RateNext]_vars

\* The room system and the rate limiter share no state but the clock: the
\* steps of the one leave the other as it is.
Next ==
  \/ \E rawRoom \in RawCodes : Create(rawRoom) /\ UNCHANGED <<rateLimitMap, requests>>
  \/ \E rawRoom \in RawCodes : Join(rawRoom) /\ UNCHANGED <<rateLimitMap, requests>>
  \/ \E clientId \in ClientIds : Leave(clientId) /\ UNCHANGED <<rateLimitMap, requests>>
  \/ \E clientId \in ClientIds, rawText \in RawTexts :
       Send(clientId, rawText) /\ UNCHANGED <<rateLimitMap, requests>>
  \/ \E clientId \in ClientIds : Poll(clientId) /\ UNCHANGED <<rateLimitMap, requests>>
  \/ \E res \in 1..MaxPolls : Timeout(res) /\ UNCHANGED <<rateLimitMap, requests>>
  \/ \E res \in 1..MaxPolls : Close(res) /\ UNCHANGED <<rateLimitMap, requests>>
  \/ Cleanup /\ UNCHANGED <<rateLimitMap, requests>>
  \/ Tick /\ UNCHANGED <<rateLimitMap, requests>>

Spec == Init /\ [][Next]_vars

\* the state one clock step after Init: no request has arrived yet
Idle ==
  /\ rooms = EmptyMap
  /\ pendingPolls = EmptyMap
  /\ clientRooms = EmptyMap
  /\ timers = EmptyMap
  /\ polls = EmptyMap
  /\ now = Quantum
  /\ nextSweep = CLEANUP_INTERVAL_MS
  /\ nextClient = 1
  /\ nextRes = 1
  /\ last = Resp("tick")
  /\ sent = <<>>
  /\ owed = [c \in ClientIds |-> <<>>]
  /\ entered = EmptyMap
  /\ left = {}
  /\ nSends = 0
  /\ rateLimitMap = EmptyMap
  /\ requests = [i \in 1..Len(Ips) |-> <<>>]

\* The room system in mid-run, the clock read from this moment on.  Two
\* clients entered room CodeA and drained their queues CLIENT_TIMEOUT_MS ago,
\* closed their parked polls and were not heard of since; the two sweeps in
\* between found nobody stale and queued one presence event each for both.
Aged ==
  LET users == << [id |-> 1, name |-> NameOf(RawNameOf(1))],
                  [id |-> 2, name |-> NameOf(RawNameOf(2))] >>
      presence == [count |-> 2, room |-> CodeA, type |-> "presence", users |-> users]
      member(i) == [events |-> <<presence, presence>>, id |-> i,
                    lastSeen |-> 0 - CLIENT_TIMEOUT_MS, name |-> users[i].name]
  IN /\ rooms = [code \in {CodeA} |-> <<member(1), member(2)>>]
     /\ pendingPolls = EmptyMap
     /\ clientRooms = [c \in {1, 2} |-> CodeA]
     /\ timers = EmptyMap
     /\ polls = EmptyMap
     /\ now = 0
     /\ nextSweep = CLEANUP_INTERVAL_MS
     /\ nextClient = 3
     /\ nextRes = 1
     /\ last = Resp("cleanup")
     /\ sent = <<>>
     /\ owed = [c \in ClientIds |-> <<>>]
     /\ entered = [code \in {CodeA} |-> [ids |-> <<1, 2>>, left |-> FALSE]]
     /\ left = {}
     /\ nSends = 0
     /\ rateLimitMap = EmptyMap
     /\ requests = [i \in 1..Len(Ips) |-> <<>>]

\* Aged, POLL_TIMEOUT_MS later: both members have been silent for longer
\* than CLIENT_TIMEOUT_MS and the sweep is due.
Overdue ==
  LET users == << [id |-> 1, name |-> NameOf(RawNameOf(1))],
                  [id |-> 2, name |-> NameOf(RawNameOf(2))] >>
      presence == [count |-> 2, room |-> CodeA, type |-> "presence", users |-> users]
      member(i) == [events |-> <<presence, presence>>, id |-> i,
                    lastSeen |-> 0 - CLIENT_TIMEOUT_MS, name |-> users[i].name]
  IN /\ rooms = [code \in {CodeA} |-> <<member(1), member(2)>>]
     /\ pendingPolls = EmptyMap
     /\ clientRooms = [c \in {1, 2} |-> CodeA]
     /\ timers = EmptyMap
     /\ polls = EmptyMap
     /\ now = CLEANUP_INTERVAL_MS
     /\ nextSweep = CLEANUP_INTERVAL_MS
     /\ nextClient = 3
     /\ nextRes = 1
     /\ last = Resp("tick")
     /\ sent = <<>>
     /\ owed = [c \in ClientIds |-> <<>>]
     /\ entered = [code \in {CodeA} |-> [ids |-> <<1, 2>>, left |-> FALSE]]
     /\ left = {}
     /\ nSends = 0
     /\ rateLimitMap = EmptyMap
     /\ requests = [i \in 1..Len(Ips) |-> <<>>]

\* The handlers and the sweep; the explored behaviours end before the
\* timer of a poll parked in them falls due.
OverdueNext ==
  \/ \E rawRoom \in RawCodes : Create(rawRoom) /\ UNCHANGED <<rateLimitMap, requests>>
  \/ \E rawRoom \in RawCodes : Join(rawRoom) /\ UNCHANGED <<rateLimitMap, requests>>
  \/ \E clientId \in ClientIds : Leave(clientId) /\ UNCHANGED <<rateLimitMap, requests>>
  \/ \E clientId \in ClientIds, rawText \in RawTexts :
       Send(clientId, rawText) /\ UNCHANGED <<rateLimitMap, requests>>
  \/ \E clientId \in ClientIds : Poll(clientId) /\ UNCHANGED <<rateLimitMap, requests>>
  \/ \E res \in 1..MaxPolls : Close(res) /\ UNCHANGED <<rateLimitMap, requests>>
  \/ Cleanup /\ UNCHANGED <<rateLimitMap, requests>>
  \/ Tick /\ UNCHANGED <<rateLimitMap, requests>>

OverdueSpec == Overdue /\ [][OverdueNext]_vars

\* Time passes whatever the clients do: the clock step of the behaviours in
\* which clients fall silent, up to MaxReapTicks steps.
Pass ==
  /\ now < MaxReapTicks * Quantum
  /\ \A t \in DOMAIN timers : timers[t] > now
  /\ nextSweep > now
  /\ now' = now + Quantum
  /\ last' = Resp("tick")
  /\ sent' = <<>>
  /\ UNCHANGED <<rooms, pendingPolls, clientRooms, timers, polls, nextSweep,
                 nextClient, nextRes, owed, entered, left, nSends>>

\* The members of a room poll or fall silent while time passes; nobody
\* enters, leaves or sends.
ReapNext ==
  \/ \E clientId \in ClientIds : Poll(clientId) /\ UNCHANGED <<rateLimitMap, requests>>
  \/ \E res \in 1..MaxPolls : Timeout(res) /\ UNCHANGED <<rateLimitMap, requests>>
  \/ \E res \in 1..MaxPolls : Close(res) /\ UNCHANGED <<rateLimitMap, requests>>
  \/ Cleanup /\ UNCHANGED <<rateLimitMap, requests>>
  \/ Pass /\ UNCHANGED <<rateLimitMap, requests>>

\* setInterval(cleanup, 30000) and the setTimeout of a parked poll run their
\* callbacks when due, and time passes.  The fairness of the sweep is
\* WF_vars(Cleanup) written out: Cleanup is enabled exactly when CleanupDue
\* holds, and every Cleanup step changes nextSweep.
ReapSpec ==
  /\ Aged
  /\ [][ReapNext]_vars
  /\ ([]<>(~CleanupDue)
        \/ []<><<Cleanup /\ UNCHANGED <<rateLimitMap, requests>>>>_vars)
  /\ WF_vars(Pass /\ UNCHANGED <<rateLimitMap, requests>>)
  /\ \A res \in 1..MaxPolls : WF_vars(Timeout(res) /\ UNCHANGED <<rateLimitMap, requests>>)

\* Clients poll in a loop (app.js, poll(), which polls again 100 ms after a
\* response): a poll that can return or park is eventually made.
LiveSpec ==
  /\ Idle
  /\ [][Next]_vars
  /\ \A clientId \in ClientIds :
       WF_vars(Poll(clientId) /\ UNCHANGED <<rateLimitMap, requests>>)

\* ---------------------------------------------------------- mid-run states
\* States that Spec reaches, from which the handlers are explored further.
\* The i-th client to register, as its room keeps it:
Member(id, t, events) ==
  [events |-> events, id |-> id, lastSeen |-> t, name |-> NameOf(RawNameOf(id))]

\* the events create and join queue for the new client
Onboarding(id, verb, roomCode, snapshot) ==
  << [clientId |-> id, type |-> "hello"],
     [clientId |-> id, room |-> roomCode, type |-> verb],
     PresenceEvent(snapshot) >>

\* The state of Spec after: client 1 creates room CodeA and polls (the poll
\* drains its queue); client 2 joins; client 1 polls twice, the first poll
\* drains its queue and the second is parked.  Client 2 has not polled yet.
Parked ==
  LET both == <<Member(1, 0, <<>>), Member(2, 0, <<>>)>>
      snapshot == roomSnapshot([code \in {CodeA} |-> both], CodeA)
  IN /\ rooms = [code \in {CodeA} |->
                   <<Member(1, 0, <<>>),
                     Member(2, 0, Onboarding(2, "joined", CodeA, snapshot))>>]
     /\ pendingPolls = [c \in {1} |-> [res |-> 1, timer |-> 1]]
     /\ clientRooms = [c \in {1, 2} |-> CodeA]
     /\ timers = [res \in {1} |-> POLL_TIMEOUT_MS]
     /\ polls = [res \in {1} |-> [answered |-> 0, client |-> 1, closed |-> FALSE]]
     /\ now = 0
     /\ nextSweep = CLEANUP_INTERVAL_MS
     /\ nextClient = 3
     /\ nextRes = 2
     /\ last = [Resp("poll") EXCEPT !.status = 0, !.res = 1]
     /\ sent = <<>>
     /\ owed = [c \in ClientIds |-> <<>>]
     /\ entered = [code \in {CodeA} |-> [ids |-> <<1, 2>>, left |-> FALSE]]
     /\ left = {}
     /\ nSends = 0
     /\ rateLimitMap = EmptyMap
     /\ requests = [i \in 1..Len(Ips) |-> <<>>]

ParkedSpec == Parked /\ [][Next]_vars

\* The state of Spec after: client 1 creates room CodeA and polls twice (the
\* first poll drains its queue, the second is parked); client 2 creates room
\* CodeB and has not polled yet.
TwoRooms ==
  LET alone == [code \in {CodeB} |-> <<Member(2, 0, <<>>)>>]
      snapshot == roomSnapshot(alone, CodeB)
  IN /\ rooms = [code \in {CodeA, CodeB} |->
                   IF code = CodeA THEN <<Member(1, 0, <<>>)>>
                   ELSE <<Member(2, 0, Onboarding(2, "created", CodeB, snapshot))>>]
     /\ pendingPolls = [c \in {1} |-> [res |-> 1, timer |-> 1]]
     /\ clientRooms = [c \in {1, 2} |-> IF c = 1 THEN CodeA ELSE CodeB]
     /\ timers = [res \in {1} |-> POLL_TIMEOUT_MS]
     /\ polls = [res \in {1} |-> [answered |-> 0, client |-> 1, closed |-> FALSE]]
     /\ now = 0
     /\ nextSweep = CLEANUP_INTERVAL_MS
     /\ nextClient = 3
     /\ nextRes = 2
     /\ last = [Resp("create") EXCEPT !.clientId = 2, !.room = CodeB,
                  !.users = snapshot.users, !.count = snapshot.count]
     /\ sent = <<>>
     /\ owed = [c \in ClientIds |-> <<>>]
     /\ entered = [code \in {CodeA, CodeB} |->
                     [ids |-> IF code = CodeA THEN <<1>> ELSE <<2>>, left |-> FALSE]]
     /\ left = {}
     /\ nSends = 0
     /\ rateLimitMap = EmptyMap
     /\ requests = [i \in 1..Len(Ips) |-> <<>>]

TwoRoomsSpec == TwoRooms /\ [][Next]_vars

\* ============================================================ properties
IsMember(c) == \E code \in DOMAIN rooms : HasClient(rooms[code], c)
RoomOf(c) == CHOOSE code \in DOMAIN rooms : HasClient(rooms[code], c)
QueueOf(c) == GetClient(rooms[RoomOf(c)], c).events
EmptyAnswer(c, res) == [client |-> c, events |-> <<>>, res |-> res]
AllQueues == [code \in DOMAIN rooms |-> [i \in 1..Len(rooms[code]) |-> rooms[code][i].events]]
Blank(raw) == \A i \in 1..Len(raw) : IsSpace(raw[i].ch)

\* C1 (safety part): the messages waiting in a member's queue are exactly the
\* messages sent to its room and not yet returned to it, in the order sent,
\* each with the sanitized text and the sender's stored name; a response
\* returns them oldest first (otherwise owed becomes Lost).
C1_InOrder ==
  \A c \in ClientIds : IsMember(c) => MsgsOf(QueueOf(c)) = owed[c]

\* C1: every message sent to a room is eventually returned to every member
\* of the room, the sender included, in the order of the sends, unless the
\* member leaves the room first.
C1_Delivered ==
  /\ []C1_InOrder
  /\ \A c \in ClientIds : (owed[c] # <<>>) ~> (owed[c] = <<>>)

\* C1 witness: in a room of two, a poll of the member that did not send has
\* just returned the message, which still waits in the sender's queue.
C1_Witness ==
  /\ last.op = "poll" /\ last.status = 200
  /\ Len(MsgsOf(last.events)) = 1
  /\ \E code \in DOMAIN rooms :
       /\ Len(rooms[code]) = 2
       /\ \E i, j \in 1..2 :
            /\ i # j
            /\ rooms[code][i].id = MsgsOf(last.events)[1].from
            /\ owed[rooms[code][i].id] = MsgsOf(last.events)
            /\ MsgsOf(rooms[code][i].events) = MsgsOf(last.events)
            /\ owed[rooms[code][j].id] = <<>>
            /\ rooms[code][j].events = <<>>

\* C2 (as claimed): a leave of a client with a parked poll answers that poll
\* with an empty event list.
C2_LeaveAnswersParked ==
  [][\A c \in ClientIds :
       (c \in DOMAIN pendingPolls /\ Leave(c)) =>
          \E i \in 1..Len(sent') : sent'[i] = EmptyAnswer(c, pendingPolls[c].res)]_vars

\* C3: a poll of a client that has a parked poll answers the parked one with
\* an empty event list, exactly once, clears its timer, and leaves the new
\* request as the one registered for the client.
C3_Supersede ==
  [][\A c \in ClientIds :
       (c \in DOMAIN pendingPolls /\ Poll(c) /\ last'.status = 0) =>
          /\ QueueOf(c) = <<>>
          /\ sent' = <<EmptyAnswer(c, pendingPolls[c].res)>>
          /\ polls[pendingPolls[c].res].answered = 0
          /\ pendingPolls[c].timer \notin DOMAIN timers'
          /\ c \in DOMAIN pendingPolls'
          /\ pendingPolls'[c].res = last'.res
          /\ pendingPolls'[c].res # pendingPolls[c].res
          /\ pendingPolls'[c].timer \in DOMAIN timers']_vars

\* C3 witness: the last request was a poll that was parked and that answered
\* an older parked poll.
C3_Witness ==
  /\ last.op = "poll" /\ last.status = 0
  /\ Len(sent) = 1 /\ sent[1].events = <<>> /\ sent[1].res # last.res
  /\ sent[1].client \in DOMAIN pendingPolls
  /\ pendingPolls[sent[1].client].res = last.res

\* C4: a parked poll always has its timer armed, due POLL_TIMEOUT_MS after
\* it was parked and never overdue; when the timer fires the poll is answered
\* with an empty event list and its registration and timer are removed.
C4_Timeout ==
  /\ [](\A c \in DOMAIN pendingPolls :
          /\ pendingPolls[c].timer \in DOMAIN timers
          /\ timers[pendingPolls[c].timer] >= now
          /\ timers[pendingPolls[c].timer] <= now + POLL_TIMEOUT_MS)
  /\ [][\A c \in ClientIds :
          (c \in DOMAIN pendingPolls' /\ last'.op = "poll" /\ last'.status = 0
             /\ pendingPolls'[c].res = last'.res) =>
              timers'[pendingPolls'[c].timer] = now + POLL_TIMEOUT_MS]_vars
  /\ [][\A res \in DOMAIN timers :
          Timeout(res) =>
            /\ timers[res] = now
            /\ sent' = <<EmptyAnswer(polls[res].client, res)>>
            /\ polls[res].answered = 0
            /\ polls[res].client \notin DOMAIN pendingPolls'
            /\ res \notin DOMAIN timers']_vars

\* C4 witness: the poll timeout has just answered a parked poll, one timeout
\* after it was parked.
C4_Witness ==
  /\ last.op = "timeout"
  /\ Len(sent) = 1 /\ sent[1].events = <<>>
  /\ sent[1].client \notin DOMAIN pendingPolls
  /\ IsMember(sent[1].client)
  /\ now - GetClient(rooms[RoomOf(sent[1].client)], sent[1].client).lastSeen
       = POLL_TIMEOUT_MS

\* C5: a poll of a client that has left fails with status 400, "Not in a
\* room.", parks nothing and changes nothing.
C5_PollAfterLeave ==
  [][\A c \in left :
       Poll(c) =>
         /\ last'.status = 400 /\ last'.error = "Not in a room."
         /\ sent' = <<>>
         /\ UNCHANGED <<rooms, pendingPolls, clientRooms, timers, polls>>]_vars

\* C5 witness: every client id has left and the last request, a poll, failed.
C5_Witness ==
  /\ left = ClientIds
  /\ last.op = "poll" /\ last.status = 400 /\ last.error = "Not in a room."

\* C6: a leave of the only member of a room removes the room in the same
\* step, and a join with a well-formed code of no live room fails with
\* status 404 and changes nothing.
C6_LastLeaveDeletes ==
  [][/\ \A c \in ClientIds :
          (IsMember(c) /\ Len(rooms[RoomOf(c)]) = 1 /\ Leave(c)) =>
             RoomOf(c) \notin DOMAIN rooms'
     /\ \A raw \in RawCodes :
          (IsRoomCode(Trim(raw)) /\ Trim(raw) \notin DOMAIN rooms /\ Join(raw)) =>
             /\ last'.status = 404
             /\ UNCHANGED <<rooms, pendingPolls, clientRooms, timers, polls>>]_vars

\* C6 witness: before any cleanup, a member has left and no room is live.
C6_Witness ==
  /\ last.op = "leave"
  /\ left # {}
  /\ DOMAIN rooms = {}
  /\ now = 0

\* C7: a successful create returns a code of 5 digits that was not live
\* before, registers it, and leaves every room that was live as it was.
C7_FreshCode ==
  [][(last'.op = "create" /\ last'.status = 200 /\ last' # last) =>
        /\ IsRoomCode(last'.room)
        /\ StrLen(last'.room) = 5
        /\ last'.room \notin DOMAIN rooms
        /\ last'.room \in DOMAIN rooms'
        /\ \A code \in DOMAIN rooms : code \in DOMAIN rooms' /\ rooms'[code] = rooms[code]]_vars

\* C7 witness: a create succeeded while another room was live.
C7_Witness ==
  /\ last.op = "create" /\ last.status = 200
  /\ Cardinality(DOMAIN rooms) = 2

\* the newest presence event that reached client c: the last of its queue,
\* or the last one the step returned to it
LatestEvent(c) ==
  IF QueueOf(c) # <<>> THEN QueueOf(c)[Len(QueueOf(c))]
  ELSE SentTo(sent, c)[Len(SentTo(sent, c))]

\* C8: while nobody has left a room or was evicted from it, its snapshot has
\* a count equal to the number of clients that entered and lists exactly
\* their ids, each once, in the order they entered; the response of a create
\* or join and the presence event it queued for every member carry that
\* snapshot.
C8_Snapshot ==
  \A code \in DOMAIN rooms :
    ~entered[code].left =>
      LET snap == roomSnapshot(rooms, code)
          ids == [i \in 1..Len(snap.users) |-> snap.users[i].id]
      IN /\ snap.count = Len(entered[code].ids)
         /\ ids = entered[code].ids
         /\ \A i, j \in 1..Len(ids) : ids[i] = ids[j] => i = j
         /\ (last.op \in {"create", "join"} /\ last.status = 200 /\ last.room = code) =>
              /\ last.count = snap.count
              /\ last.users = snap.users
              /\ \A i \in 1..Len(ids) : LatestEvent(ids[i]) = PresenceEvent(snap)

\* C8 witness: a third client has just joined a room that nobody has left.
C8_Witness ==
  /\ last.op = "join" /\ last.status = 200 /\ last.count = 3
  /\ ~entered[last.room].left

\* C9 (as claimed): a send whose sanitized text is empty succeeds and queues
\* no event (stated for a member of a room, whose send no other test refuses).
C9_EmptySendSucceeds ==
  [][\A c \in ClientIds, raw \in RawTexts :
       (IsMember(c) /\ Blank(raw) /\ Send(c, raw)) =>
          /\ last'.status = 200
          /\ AllQueues' = AllQueues /\ sent' = <<>>]_vars

\* C9 (amended): a send whose sanitized text is empty fails with status 400,
\* "No text provided.", and queues no event.
C9_EmptySendFails ==
  [][\A c \in ClientIds, raw \in RawTexts :
       (Blank(raw) /\ Send(c, raw)) =>
          /\ last'.status = 400 /\ last'.error = "No text provided."
          /\ AllQueues' = AllQueues /\ sent' = <<>>]_vars

\* C9 witness: a member of a room with a second member has just sent a blank
\* text.
C9_Witness ==
  /\ last.op = "send" /\ last.status = 400 /\ last.error = "No text provided."
  /\ \E code \in DOMAIN rooms : Len(rooms[code]) = 2

Types(events) == [i \in 1..Len(events) |-> events[i].type]

\* C11: a join with a well-formed code of no live room fails with status 404
\* "Room not found."; a successful join into a room leaves every other room
\* as it was: its members, their queues, their parked polls, and no response
\* is written to any of them.
C11_JoinFrame ==
  [][\A raw \in RawCodes :
       Join(raw) =>
         /\ (IsRoomCode(Trim(raw)) /\ Trim(raw) \notin DOMAIN rooms) =>
              /\ last'.status = 404 /\ last'.error = "Room not found."
              /\ UNCHANGED <<rooms, pendingPolls, clientRooms, timers, polls>>
         /\ last'.status = 200 =>
              \A other \in DOMAIN rooms \ {last'.room} :
                /\ other \in DOMAIN rooms'
                /\ rooms'[other] = rooms[other]
                /\ \A i \in 1..Len(rooms[other]) :
                     LET c == rooms[other][i].id
                     IN /\ SentTo(sent', c) = <<>>
                        /\ (c \in DOMAIN pendingPolls) = (c \in DOMAIN pendingPolls')
                        /\ c \in DOMAIN pendingPolls => pendingPolls'[c] = pendingPolls[c]]_vars

\* C11 witness: a join into one of two live rooms has just succeeded, and the
\* creator of the other room still has its three first events queued.
C11_Witness ==
  /\ last.op = "join" /\ last.status = 200
  /\ \E other \in DOMAIN rooms \ {last.room} :
       /\ Len(rooms[other]) = 1
       /\ Types(rooms[other][1].events) = <<"hello", "created", "presence">>

\* C12: a create, join, send or poll request that returns an error leaves
\* the rooms with their members and queues, the session table, the parked
\* polls and their timers as they were, and writes no response to a parked
\* poll.
C12_ErrorsChangeNothing ==
  [][(last'.op \in {"create", "join", "send", "poll"} /\ last'.status \notin {0, 200}) =>
        /\ UNCHANGED <<rooms, pendingPolls, clientRooms, timers, polls>>
        /\ sent' = <<>>]_vars

\* C12 witness: a create with a code in use has just failed while a poll is
\* parked.
C12_Witness ==
  /\ last.op = "create" /\ last.status = 400
  /\ last.error = "Room code already in use."
  /\ DOMAIN pendingPolls # {}

\* C13: a successful create makes the new client the only member of the new
\* room, with hello, created and presence (count 1, the creator alone) queued
\* in that order, and returns that snapshot; a poll of a member whose queue
\* holds just these three events returns them in that order and empties the
\* queue.
C13_CreateOnboarding ==
  [][/\ \A raw \in RawCodes :
          (Create(raw) /\ last'.status = 200) =>
             LET c == last'.clientId
                 code == last'.room
                 users == <<[id |-> c, name |-> rooms'[code][1].name]>>
             IN /\ ~IsMember(c)
                /\ Len(rooms'[code]) = 1
                /\ rooms'[code][1].id = c
                /\ clientRooms'[c] = code
                /\ rooms'[code][1].events =
                     << [clientId |-> c, type |-> "hello"],
                        [clientId |-> c, room |-> code, type |-> "created"],
                        [count |-> 1, room |-> code, type |-> "presence", users |-> users] >>
                /\ last'.count = 1 /\ last'.users = users
     /\ \A c \in ClientIds :
          (IsMember(c) /\ Poll(c)
             /\ Types(QueueOf(c)) = <<"hello", "created", "presence">>) =>
             /\ last'.status = 200
             /\ last'.events = QueueOf(c)
             /\ GetClient(rooms'[RoomOf(c)], c).events = <<>>]_vars

\* C13 witness: a poll has just returned hello, created and a presence of
\* count 1.
C13_Witness ==
  /\ last.op = "poll" /\ last.status = 200
  /\ Types(last.events) = <<"hello", "created", "presence">>
  /\ last.events[3].count = 1
  /\ last.events[3].users[1].id = last.events[1].clientId

\* C14: a successful join leaves hello, joined and presence, in that order,
\* in the queue of the joiner, and appends the same presence event to the
\* queue of every member that was in the room (a member with a parked poll
\* gets the queue with the event as the response of that poll); the presence
\* event carries the room, users and count of the join response.
C14_JoinOnboarding ==
  [][\A raw \in RawCodes :
       (Join(raw) /\ last'.status = 200) =>
          LET c == last'.clientId
              code == last'.room
              presence == [count |-> last'.count, room |-> code, type |-> "presence",
                           users |-> last'.users]
              n == Len(rooms[code])
          IN /\ ~IsMember(c)
             /\ Len(rooms'[code]) = n + 1
             /\ rooms'[code][n + 1].id = c
             /\ rooms'[code][n + 1].events =
                  << [clientId |-> c, type |-> "hello"],
                     [clientId |-> c, room |-> code, type |-> "joined"],
                     presence >>
             /\ last'.count = n + 1
             /\ \A i \in 1..n :
                  /\ rooms'[code][i].id = rooms[code][i].id
                  /\ IF rooms[code][i].id \in DOMAIN pendingPolls
                     THEN /\ rooms'[code][i].events = <<>>
                          /\ SentTo(sent', rooms[code][i].id)
                               = Append(rooms[code][i].events, presence)
                     ELSE /\ rooms'[code][i].events = Append(rooms[code][i].events, presence)
                          /\ SentTo(sent', rooms[code][i].id) = <<>>]_vars

\* C14 witness: a join has just succeeded into a room whose first member had
\* a parked poll, which got the presence event.
C14_Witness ==
  /\ last.op = "join" /\ last.status = 200 /\ last.count = 2
  /\ Len(sent) = 1
  /\ Types(sent[1].events) = <<"presence">>
  /\ sent[1].client = rooms[last.room][1].id

\* the events a step returns to client c: the response of its own poll and
\* the responses written to its parked polls
Returned(c) ==
  (IF last'.op = "poll" /\ last'.status = 200 /\ Poll(c) THEN last'.events ELSE <<>>)
    \o SentTo(sent', c)

\* C15: for every client that stays in its room, the events a step returns to
\* it followed by its queue after the step are its queue before the step
\* followed by at most one new event, and that new event is the same for all
\* who stay in the room: events are queued at the tail in broadcast order for
\* every recipient and are returned from the head.
C15_BroadcastOrder ==
  [][\A code \in DOMAIN rooms \cap DOMAIN rooms' :
       LET stay == {c \in ClientIds :
                      HasClient(rooms[code], c) /\ HasClient(rooms'[code], c)}
           Before(c) == GetClient(rooms[code], c).events
           Stream(c) == Returned(c) \o GetClient(rooms'[code], c).events
           Added(c) == SubSeq(Stream(c), Len(Before(c)) + 1, Len(Stream(c)))
       IN /\ \A c \in stay :
               /\ Len(Stream(c)) \in {Len(Before(c)), Len(Before(c)) + 1}
               /\ SubSeq(Stream(c), 1, Len(Before(c))) = Before(c)
               /\ Returned(c) # <<>> => GetClient(rooms'[code], c).events = <<>>
          /\ \A c1, c2 \in stay : Added(c1) = Added(c2)]_vars

\* C15 witness: one poll response has just returned a presence event and the
\* message broadcast after it, in that order.
C15_Witness ==
  /\ last.op = "poll" /\ last.status = 200
  /\ Types(last.events) = <<"presence", "msg">>

\* the member ids of every live room, in order
AllMembers == [code \in DOMAIN rooms |-> IdsOf(rooms[code])]

\* C16 (as claimed): a leave always succeeds, and a leave of a client id that
\* is a member of no room changes no member set, queues no event and writes
\* no response to a parked poll.
C16_LeaveNonMember ==
  [][\A c \in ClientIds :
       Leave(c) =>
         /\ last'.status = 200
         /\ ~IsMember(c) =>
              /\ AllMembers' = AllMembers
              /\ AllQueues' = AllQueues
              /\ sent' = <<>>]_vars

\* C17: a poll of a client id that is a member of no live room fails at once
\* with status 400, "Not in a room." or "Client not found."; it parks no
\* request, arms no timer and changes no lastSeen (nor anything else).
C17_PollNonMember ==
  [][\A c \in ClientIds :
       (~IsMember(c) /\ Poll(c)) =>
          /\ last'.status = 400
          /\ last'.error \in {"Not in a room.", "Client not found."}
          /\ sent' = <<>>
          /\ UNCHANGED <<rooms, pendingPolls, clientRooms, timers, polls, nextRes>>]_vars

\* C17 witness: a client evicted from a room that is still live has just
\* polled and got "Client not found.".
C17_Witness ==
  /\ last.op = "poll" /\ last.status = 400 /\ last.error = "Client not found."
  /\ \E c \in DOMAIN clientRooms :
       /\ clientRooms[c] \in DOMAIN rooms
       /\ ~HasClient(rooms[clientRooms[c]], c)
       /\ rooms[clientRooms[c]] # <<>>

\* C18: a create with a code supplied succeeds, with that code, exactly when
\* the code is 5 decimal digits and no live room has it; otherwise it fails
\* with status 400, "Room code must be 5 digits." for a malformed code and
\* "Room code already in use." for a live one, registers no client and
\* leaves every room with its members and queues as it was.
C18_CreateWithCode ==
  [][\A raw \in RawCodes :
       (Trim(raw) # <<>> /\ Create(raw)) =>
          IF IsRoomCode(Trim(raw)) /\ Trim(raw) \notin DOMAIN rooms
          THEN /\ last'.status = 200
               /\ last'.room = Trim(raw)
               /\ Trim(raw) \in DOMAIN rooms'
          ELSE /\ last'.status = 400
               /\ last'.error = IF IsRoomCode(Trim(raw))
                                THEN "Room code already in use."
                                ELSE "Room code must be 5 digits."
               /\ sent' = <<>>
               /\ UNCHANGED <<rooms, pendingPolls, clientRooms, timers, polls,
                              nextClient>>]_vars

\* C18 witness: a create with the code of a live room of two has just failed.
C18_Witness ==
  /\ last.op = "create" /\ last.status = 400
  /\ last.error = "Room code already in use."
  /\ \E code \in DOMAIN rooms : Len(rooms[code]) = 2

\* C19 (as claimed): a create without a code that finds no free code fails
\* with a status of the 500 class and creates no room and no client.
C19_ExhaustedIs500 ==
  [][\A raw \in RawCodes :
       (Trim(raw) = <<>> /\ Create(raw) /\ last'.status # 200) =>
          /\ last'.status \in 500..599
          /\ UNCHANGED <<rooms, clientRooms, nextClient>>]_vars

\* the requests of the i-th address that were processed
Admitted(i) == SelectSeq(requests[i], LAMBDA r : r.status = 200)

\* C20 (as claimed): of the requests of one address, at most
\* RATE_LIMIT_MAX_REQUESTS are processed within any span of
\* RATE_LIMIT_WINDOW_MS.
C20_AnySpan ==
  \A i \in 1..Len(Ips) :
    LET admitted == Admitted(i)
    IN \A j \in 1..Len(admitted) :
         Cardinality({k \in j..Len(admitted) :
                        admitted[k].at - admitted[j].at < RATE_LIMIT_WINDOW_MS})
           <= RATE_LIMIT_MAX_REQUESTS

\* the requests of the i-th address processed since the start of `window`
InWindow(i, window) ==
  Len(SelectSeq(Admitted(i), LAMBDA r : r.at >= window))

\* the start of the window a request of the i-th address at time t falls in:
\* the window of its entry, or t when the entry is missing or older than
\* RATE_LIMIT_WINDOW_MS
WindowAt(i, t) ==
  IF Ips[i] \in DOMAIN rateLimitMap
       /\ t - rateLimitMap[Ips[i]].windowStart <= RATE_LIMIT_WINDOW_MS
  THEN rateLimitMap[Ips[i]].windowStart
  ELSE t

\* C20 (amended): for each address, a window opens with the first request
\* that comes more than RATE_LIMIT_WINDOW_MS after the window before it
\* opened; at most RATE_LIMIT_MAX_REQUESTS requests of the address are
\* processed in one window, every further request in the window gets status
\* 429 and is not processed, and the requests of one address do not count
\* for another.
C20_PerWindow ==
  /\ [](\A i \in 1..Len(Ips) :
          Ips[i] \in DOMAIN rateLimitMap =>
            InWindow(i, rateLimitMap[Ips[i]].windowStart) <= RATE_LIMIT_MAX_REQUESTS)
  /\ [][\A i \in 1..Len(Ips) :
          (Stt(i) \/ Tts(i)) =>
             /\ last'.status = IF InWindow(i, WindowAt(i, now)) < RATE_LIMIT_MAX_REQUESTS
                               THEN 200 ELSE 429
             /\ Len(requests'[i]) = Len(requests[i]) + 1
             /\ requests'[i][Len(requests'[i])] = [at |-> now, status |-> last'.status]
             /\ \A j \in 1..Len(Ips) \ {i} :
                  /\ requests'[j] = requests[j]
                  /\ (Ips[j] \in DOMAIN rateLimitMap) = (Ips[j] \in DOMAIN rateLimitMap')
                  /\ Ips[j] \in DOMAIN rateLimitMap =>
                       rateLimitMap'[Ips[j]] = rateLimitMap[Ips[j]]]_vars

\* C20 witness: the 31st request of an address in one window has just been
\* refused with 429, after a request of the other address was processed.
C20_Witness ==
  /\ last.status = 429
  /\ InWindow(1, rateLimitMap[Ips[1]].windowStart) = RATE_LIMIT_MAX_REQUESTS
  /\ requests[1][Len(requests[1])].status = 429
  /\ Len(Admitted(2)) = 1

\* C21 (as claimed): a sweep that evicts nobody from a room leaves the room
\* and every queue of it as they were and writes no response to its members.
C21_SweepFrame ==
  [][Cleanup =>
       \A code \in DOMAIN rooms :
         (\A i \in 1..Len(rooms[code]) :
            ~(now - rooms[code][i].lastSeen > CLIENT_TIMEOUT_MS)) =>
            /\ code \in DOMAIN rooms'
            /\ rooms'[code] = rooms[code]
            /\ \A i \in 1..Len(sent') : ~HasClient(rooms[code], sent'[i].client)]_vars

\* C22: a sweep removes from each room exactly the members last seen more
\* than CLIENT_TIMEOUT_MS ago, in place; it writes no response to an evicted
\* client; every member that stays gets one presence event with the room
\* code, the members that stay and their number, at the tail of its queue (as
\* the response of its parked poll if it has one); a room left with no member
\* is deleted.
C22_Sweep ==
  [][Cleanup =>
       \A code \in DOMAIN rooms :
         LET old(m) == now - m.lastSeen > CLIENT_TIMEOUT_MS
             survivors == SelectSeq(rooms[code], LAMBDA m : ~old(m))
             evicted == {rooms[code][i].id : i \in {j \in 1..Len(rooms[code]) :
                                                      old(rooms[code][j])}}
             users == [i \in 1..Len(survivors) |->
                         [id |-> survivors[i].id, name |-> survivors[i].name]]
             presence == [count |-> Len(survivors), room |-> code, type |-> "presence",
                          users |-> users]
         IN /\ \A c \in evicted :
                 /\ \A other \in DOMAIN rooms' : ~HasClient(rooms'[other], c)
                 /\ \A i \in 1..Len(sent') : sent'[i].client # c
                 /\ c \notin DOMAIN pendingPolls'
            /\ IF survivors = <<>> THEN code \notin DOMAIN rooms'
               ELSE /\ code \in DOMAIN rooms'
                    /\ IdsOf(rooms'[code]) = IdsOf(survivors)
                    /\ \A i \in 1..Len(survivors) :
                         IF survivors[i].id \in DOMAIN pendingPolls
                         THEN /\ rooms'[code][i].events = <<>>
                              /\ SentTo(sent', survivors[i].id)
                                   = Append(survivors[i].events, presence)
                         ELSE /\ rooms'[code][i].events
                                   = Append(survivors[i].events, presence)
                              /\ SentTo(sent', survivors[i].id) = <<>>]_vars

\* C22 witness: a sweep has just evicted one of the two members of a room;
\* the other holds a presence event of count 1 that lists it alone.
C22_Witness ==
  /\ last.op = "cleanup"
  /\ \E code \in DOMAIN rooms :
       /\ Len(rooms[code]) = 1
       /\ Len(entered[code].ids) = 2
       /\ rooms[code][1].events # <<>>
       /\ rooms[code][1].events[Len(rooms[code][1].events)]
            = [count |-> 1, room |-> code, type |-> "presence",
               users |-> <<[id |-> rooms[code][1].id, name |-> rooms[code][1].name]>>]
       /\ \E c \in DOMAIN clientRooms :
            clientRooms[c] = code /\ ~HasClient(rooms[code], c) /\ c \notin left

\* C23 (as claimed): every client id in the session table is a member of the
\* live room the table maps it to.
C23_SessionsAreMembers ==
  \A c \in DOMAIN clientRooms :
    /\ clientRooms[c] \in DOMAIN rooms
    /\ HasClient(rooms[clientRooms[c]], c)

\* C24: every client id is a member of at most one room, at one place in it,
\* and the session table maps every member of a room to that room.
C24_OneRoom ==
  \A code \in DOMAIN rooms :
    \A i \in 1..Len(rooms[code]) :
      LET c == rooms[code][i].id
      IN /\ c \in DOMAIN clientRooms
         /\ clientRooms[c] = code
         /\ \A other \in DOMAIN rooms :
              \A j \in 1..Len(rooms[other]) :
                rooms[other][j].id = c => (other = code /\ j = i)

\* C24 witness: two rooms are live, one with two members, after a create and
\* a join registered the clients.
C24_Witness ==
  /\ Cardinality(DOMAIN rooms) = 2
  /\ \E code \in DOMAIN rooms : Len(rooms[code]) = 2
  /\ Cardinality(DOMAIN clientRooms) = 3
  /\ last.op = "join" /\ last.status = 200

\* C25: when a step broadcasts an event to a room, every member that stays
\* in the room and has a parked poll gets its queue with the event as the
\* response of that poll, in that step and once; the poll's registration and
\* timer are removed and the member's queue is empty.  No response is written
\* twice, and the timeout fires only for a poll that has no response yet.
C25_BroadcastResolves ==
  /\ [][\A code \in DOMAIN rooms \cap DOMAIN rooms' :
          \A c \in DOMAIN pendingPolls :
            LET before == GetClient(rooms[code], c).events
                stream == Returned(c) \o GetClient(rooms'[code], c).events
                parked == pendingPolls[c]
            IN (HasClient(rooms[code], c) /\ HasClient(rooms'[code], c)
                  /\ Len(stream) > Len(before)) =>
                 /\ polls[parked.res].answered = 0
                 /\ \E i \in 1..Len(sent') :
                      /\ sent'[i] = [client |-> c, events |-> stream, res |-> parked.res]
                      /\ \A j \in 1..Len(sent') : sent'[j].client = c => j = i
                 /\ Len(stream) = Len(before) + 1
                 /\ SubSeq(stream, 1, Len(before)) = before
                 /\ GetClient(rooms'[code], c).events = <<>>
                 /\ c \notin DOMAIN pendingPolls'
                 /\ parked.timer \notin DOMAIN timers'
                 /\ parked.res \in DOMAIN polls' => polls'[parked.res].answered = 1]_vars
  /\ [][\A res \in DOMAIN timers : Timeout(res) => polls[res].answered = 0]_vars
  /\ [](\A res \in DOMAIN polls : polls[res].answered <= 1)

\* C25 witness: a send has just been answered to the parked poll of another
\* member of the room: the response holds the message, the poll is no longer
\* registered and no timer is armed.
C25_Witness ==
  /\ last.op = "send" /\ last.status = 200
  /\ Len(sent) = 1
  /\ Types(sent[1].events) = <<"msg">>
  /\ sent[1].events[1].from # sent[1].client
  /\ sent[1].client \notin DOMAIN pendingPolls
  /\ timers = EmptyMap
  /\ polls[sent[1].res].answered = 1

\* C26: a poll of a member whose queue is not empty returns status 200 with
\* the whole queue in queue order at once, sets the member's lastSeen to the
\* time of the poll, leaves its queue empty and everything else in the rooms
\* as it was, and parks nothing: no registration, no timer, no response
\* object is added, and no parked poll is answered.
C26_PollDrains ==
  [][\A c \in ClientIds :
       (IsMember(c) /\ QueueOf(c) # <<>> /\ Poll(c)) =>
          LET code == RoomOf(c)
              i == IndexOf(rooms[code], c)
          IN /\ last'.op = "poll" /\ last'.status = 200
             /\ last'.events = QueueOf(c)
             /\ rooms' = [rooms EXCEPT ![code][i].events = <<>>,
                                       ![code][i].lastSeen = now]
             /\ sent' = <<>>
             /\ UNCHANGED <<pendingPolls, timers, polls, nextRes, clientRooms>>]_vars

\* C26 witness: 30 s or more after it entered (or was last seen), a member
\* has just polled and got a queue of more than one event; its lastSeen is
\* the present time and its queue is empty.
C26_Witness ==
  /\ last.op = "poll" /\ last.status = 200
  /\ Len(last.events) > 1
  /\ now > 0
  /\ pendingPolls = EmptyMap
  /\ \E code \in DOMAIN rooms :
       \E i \in 1..Len(rooms[code]) :
         /\ rooms[code][i].lastSeen = now
         /\ rooms[code][i].events = <<>>
         /\ \A j \in 1..Len(rooms[code]) : j # i => rooms[code][j].lastSeen < now

\* q is an initial part of r
IsPrefix(q, r) == Len(q) <= Len(r) /\ SubSeq(r, 1, Len(q)) = q

\* C27: the close of the request of a poll removes the registration of its
\* client and the timer of that registration if the registered response is
\* the one of the closed request, and otherwise leaves every registration and
\* timer as it is; it changes no room or queue and writes no response.  A
\* member with no registered poll is written no response, and its queue only
\* grows at the tail, until its next poll.
C27_Close ==
  /\ [][\A res \in DOMAIN polls :
          Close(res) =>
            LET c == polls[res].client
            IN /\ IF c \in DOMAIN pendingPolls /\ pendingPolls[c].res = res
                  THEN /\ pendingPolls' = MapDelete(pendingPolls, c)
                       /\ timers' = MapDelete(timers, pendingPolls[c].timer)
                       /\ pendingPolls[c].timer \in DOMAIN timers
                  ELSE /\ pendingPolls' = pendingPolls
                       /\ timers' = timers
               /\ rooms' = rooms
               /\ clientRooms' = clientRooms
               /\ sent' = <<>>]_vars
  /\ [][\A code \in DOMAIN rooms \cap DOMAIN rooms' :
          \A c \in ClientIds \ DOMAIN pendingPolls :
            (HasClient(rooms[code], c) /\ HasClient(rooms'[code], c)
               /\ ~(Poll(c) /\ last'.status \in {0, 200})) =>
               /\ \A i \in 1..Len(sent') : sent'[i].client # c
               /\ c \notin DOMAIN pendingPolls'
               /\ IsPrefix(GetClient(rooms[code], c).events,
                           GetClient(rooms'[code], c).events)]_vars

\* C27 witness: the only poll there has been was parked and nothing answered
\* it; its request has just been closed: its client is still a member with
\* an empty queue, nothing is registered and no timer is armed.
C27_Witness ==
  /\ last.op = "close"
  /\ nextRes = 2 /\ now = 0 /\ nSends = 0
  /\ IsMember(1) /\ QueueOf(1) = <<>>
  /\ pendingPolls = EmptyMap
  /\ timers = EmptyMap
  /\ polls = EmptyMap

\* C28: every armed timer is the timer of the poll registered for its
\* client, and that poll has no response yet; a step that removes or
\* replaces the registration of a client removes the timer of the poll that
\* was registered; the timeout fires only for the registered poll.
C28_TimersOwned ==
  /\ [](\A t \in DOMAIN timers :
          /\ t \in DOMAIN polls
          /\ polls[t].answered = 0
          /\ polls[t].client \in DOMAIN pendingPolls
          /\ pendingPolls[polls[t].client] = [res |-> t, timer |-> t])
  /\ [][\A c \in DOMAIN pendingPolls :
          (c \notin DOMAIN pendingPolls' \/ pendingPolls'[c] # pendingPolls[c]) =>
             pendingPolls[c].timer \notin DOMAIN timers']_vars
  /\ [][\A res \in DOMAIN timers :
          Timeout(res) =>
            /\ polls[res].client \in DOMAIN pendingPolls
            /\ pendingPolls[polls[res].client].res = res]_vars

\* C28 witness: a client with a parked poll has just left its room: the poll
\* got no response, nothing is registered and no timer is armed.
C28_Witness ==
  /\ last.op = "leave"
  /\ left # {}
  /\ \E res \in DOMAIN polls :
       /\ polls[res].answered = 0
       /\ polls[res].client \in left
       /\ res \notin DOMAIN timers
  /\ pendingPolls = EmptyMap
  /\ timers = EmptyMap

\* C29: a leave of a member of a room with other members succeeds, removes
\* the member and appends one presence event to the queue of every other
\* member (as the response of its parked poll, if it has one); the event
\* lists the other members in the order they had in the room, with a count
\* one less than before; no response is written to the leaver.
C29_LeavePresence ==
  [][\A c \in ClientIds :
       (IsMember(c) /\ Len(rooms[RoomOf(c)]) > 1 /\ Leave(c)) =>
          LET code == RoomOf(c)
              others == SelectSeq(rooms[code], LAMBDA m : m.id # c)
              users == [i \in 1..Len(others) |->
                          [id |-> others[i].id, name |-> others[i].name]]
              presence == [count |-> Len(rooms[code]) - 1, room |-> code,
                           type |-> "presence", users |-> users]
          IN /\ last'.status = 200
             /\ Len(others) = Len(rooms[code]) - 1
             /\ code \in DOMAIN rooms'
             /\ IdsOf(rooms'[code]) = IdsOf(others)
             /\ \A i \in 1..Len(sent') : sent'[i].client # c
             /\ \A i \in 1..Len(others) :
                  IF others[i].id \in DOMAIN pendingPolls
                  THEN /\ rooms'[code][i].events = <<>>
                       /\ SentTo(sent', others[i].id) = Append(others[i].events, presence)
                  ELSE /\ rooms'[code][i].events = Append(others[i].events, presence)
                       /\ SentTo(sent', others[i].id) = <<>>]_vars

\* C29 witness: the first of three members of a room has just left; the two
\* that stay have a presence event of count 2 at the tail of their queues
\* that lists them in their order.
C29_Witness ==
  /\ last.op = "leave"
  /\ \E code \in DOMAIN rooms :
       /\ Len(entered[code].ids) = 3
       /\ IdsOf(rooms[code]) = SubSeq(entered[code].ids, 2, 3)
       /\ entered[code].ids[1] \in left
       /\ \A i \in 1..2 :
            /\ rooms[code][i].events # <<>>
            /\ rooms[code][i].events[Len(rooms[code][i].events)].type = "presence"
            /\ rooms[code][i].events[Len(rooms[code][i].events)].count = 2
            /\ rooms[code][i].events[Len(rooms[code][i].events)].users
                 = [j \in 1..2 |-> [id |-> rooms[code][j].id, name |-> rooms[code][j].name]]

\* C30: a send that succeeds appends one msg event to the queue of every
\* member of the sender's room, the sender included (as the response of the
\* parked poll of a member that has one); the event carries the sender's id,
\* the name the sender entered with, the room code and the sanitized text.
\* Every other room keeps its members and queues, and no response is written
\* to a member of another room.
C30_SendScope ==
  [][\A c \in ClientIds, raw \in RawTexts :
       (Send(c, raw) /\ last'.status = 200) =>
          LET code == clientRooms[c]
              msg == [from |-> c, fromName |-> NameOf(RawNameOf(c)), room |-> code,
                      text |-> Slice(Trim(raw), MAX_MSG_CHARS), ts |-> now, type |-> "msg"]
          IN /\ code \in DOMAIN rooms
             /\ HasClient(rooms[code], c)
             /\ DOMAIN rooms' = DOMAIN rooms
             /\ IdsOf(rooms'[code]) = IdsOf(rooms[code])
             /\ \A i \in 1..Len(rooms[code]) :
                  IF rooms[code][i].id \in DOMAIN pendingPolls
                  THEN /\ rooms'[code][i].events = <<>>
                       /\ SentTo(sent', rooms[code][i].id)
                            = Append(rooms[code][i].events, msg)
                  ELSE /\ rooms'[code][i].events = Append(rooms[code][i].events, msg)
                       /\ SentTo(sent', rooms[code][i].id) = <<>>
             /\ \A other \in DOMAIN rooms \ {code} :
                  /\ rooms'[other] = rooms[other]
                  /\ \A i \in 1..Len(sent') : ~HasClient(rooms[other], sent'[i].client)]_vars

\* C30 witness: the member of one room has just sent a message, which is at
\* the tail of its queue; the member of the other live room has an empty
\* queue and its poll is still parked.
C30_Witness ==
  /\ last.op = "send" /\ last.status = 200
  /\ sent = <<>>
  /\ \E code \in DOMAIN rooms :
       /\ \A i \in 1..Len(rooms[code]) :
            /\ rooms[code][i].events # <<>>
            /\ rooms[code][i].events[Len(rooms[code][i].events)].type = "msg"
            /\ rooms[code][i].events[Len(rooms[code][i].events)].room = code
       /\ \E other \in DOMAIN rooms \ {code} :
            /\ Len(rooms[other]) = 1
            /\ rooms[other][1].events = <<>>
            /\ rooms[other][1].id \in DOMAIN pendingPolls

\* a client id that was given out and is a member of no room: the client has
\* left or was evicted
Gone(c) == c < nextClient /\ ~IsMember(c)

\* C31: a client id that is a member of no room any more never becomes a
\* member again; every poll and every send with it fails with status 400,
\* changes no room, queue, session or parked poll and writes no response to
\* a parked poll.  For an evicted id whose session still points to a live
\* room (the former room, or a new room with the same code) a poll, and a
\* send with a text, fail with "Client not found.".
C31_EvictedIsGone ==
  /\ [][\A c \in ClientIds : Gone(c) => Gone(c)']_vars
  /\ [][\A c \in ClientIds :
          (Gone(c) /\ Poll(c)) =>
             /\ last'.status = 400
             /\ (c \in DOMAIN clientRooms /\ clientRooms[c] \in DOMAIN rooms) =>
                  last'.error = "Client not found."
             /\ sent' = <<>>
             /\ UNCHANGED <<rooms, pendingPolls, clientRooms, timers, polls>>]_vars
  /\ [][\A c \in ClientIds, raw \in RawTexts :
          (Gone(c) /\ Send(c, raw)) =>
             /\ last'.status = 400
             /\ (c \in DOMAIN clientRooms /\ clientRooms[c] \in DOMAIN rooms
                   /\ ~Blank(raw)) => last'.error = "Client not found."
             /\ sent' = <<>>
             /\ UNCHANGED <<rooms, pendingPolls, clientRooms, timers, polls>>]_vars

\* C31 witness: both members of a room were evicted and the room deleted, a
\* third client created a room with the same code, and a send with a text by
\* an evicted id has just failed.
C31_Witness ==
  /\ last.op = "send" /\ last.status = 400 /\ last.error = "Client not found."
  /\ left = {}
  /\ \E code \in DOMAIN rooms :
       /\ IdsOf(rooms[code]) = <<3>>
       /\ \E c \in {1, 2} : c \in DOMAIN clientRooms /\ clientRooms[c] = code
       /\ MsgsOf(rooms[code][1].events) = <<>>

LastSeenOf(c) == GetClient(rooms[RoomOf(c)], c).lastSeen

\* the values of lastSeen from which the sweep that finds the client stale
\* lies within the clock of the model
ReapTimes ==
  {t \in {0 - CLIENT_TIMEOUT_MS} \cup {k * Quantum : k \in 0..MaxReapTicks} :
     t + CLIENT_TIMEOUT_MS + CLEANUP_INTERVAL_MS <= MaxReapTicks * Quantum}

\* C32: a member that does not poll again (its lastSeen stays t) and does
\* not leave is eventually removed from its room; the sweep that removes it
\* gives every member that stays a presence event that lists the members
\* that stay; a room none of whose members polls again is eventually deleted.
C32_Reaped ==
  /\ \A c \in ClientIds : \A t \in ReapTimes :
       (IsMember(c) /\ LastSeenOf(c) = t) ~> (~IsMember(c) \/ LastSeenOf(c) # t)
  /\ \A code \in GenCodes : \A t \in ReapTimes :
       (code \in DOMAIN rooms /\ \A i \in 1..Len(rooms[code]) : rooms[code][i].lastSeen <= t)
         ~> (code \notin DOMAIN rooms
               \/ \E i \in 1..Len(rooms[code]) : rooms[code][i].lastSeen > t)
  /\ [][Cleanup =>
          \A code \in DOMAIN rooms \cap DOMAIN rooms' :
            \A i \in 1..Len(rooms[code]) :
              ~HasClient(rooms'[code], rooms[code][i].id) =>
                 \A j \in 1..Len(rooms'[code]) :
                   LET d == rooms'[code][j]
                       stream == SentTo(sent', d.id) \o d.events
                       newest == stream[Len(stream)]
                   IN /\ stream # <<>>
                      /\ newest.type = "presence"
                      /\ [k \in 1..Len(newest.users) |-> newest.users[k].id]
                           = IdsOf(rooms'[code])
                      /\ \A k \in 1..Len(newest.users) :
                           newest.users[k].id # rooms[code][i].id]_vars

\* C32 witness: a member polled once and then fell silent with the other; a
\* sweep evicted the other first and, 60 s later, has just evicted it and
\* deleted the room.  Neither of them left.
C32_Witness ==
  /\ last.op = "cleanup"
  /\ rooms = EmptyMap
  /\ DOMAIN clientRooms = {1, 2}
  /\ left = {}
  /\ now >= CLIENT_TIMEOUT_MS + CLEANUP_INTERVAL_MS

\* C33: every response written in a step goes to a parked poll that had no
\* response before the step, and no step writes two responses to one poll;
\* an answered poll has no armed timer and is not registered, so nothing
\* answers it again.
C33_AnsweredOnce ==
  /\ [][\A k \in 1..Len(sent') :
          /\ sent'[k].res \in DOMAIN polls
          /\ polls[sent'[k].res].answered = 0
          /\ polls[sent'[k].res].client = sent'[k].client
          /\ \A j \in 1..Len(sent') : sent'[j].res = sent'[k].res => j = k]_vars
  /\ [](\A res \in DOMAIN polls :
          polls[res].answered >= 1 =>
             /\ res \notin DOMAIN timers
             /\ \A c \in DOMAIN pendingPolls : pendingPolls[c].res # res)
  /\ [][\A res \in DOMAIN polls \cap DOMAIN polls' :
          polls'[res].answered =
            polls[res].answered
              + Len(SelectSeq(sent', LAMBDA response : response.res = res))]_vars

\* C33 witness: a client polled twice; the second poll superseded the first,
\* which was answered then, and the presence event of another member's leave
\* has just answered the second.
C33_Witness ==
  /\ last.op = "leave"
  /\ DOMAIN polls = {1, 2}
  /\ polls[1].client = polls[2].client
  /\ polls[1].answered = 1
  /\ polls[2].answered = 1
  /\ Len(sent) = 1
  /\ sent[1].res = 2

\* C34: a client with a registered parked poll is a member of a live room,
\* the room of its session, and its queue is empty.
C34_ParkedIsIdleMember ==
  \A c \in DOMAIN pendingPolls :
    /\ IsMember(c)
    /\ QueueOf(c) = <<>>
    /\ c \in DOMAIN clientRooms
    /\ clientRooms[c] = RoomOf(c)

\* C34 witness: both members of a room have a parked poll registered, and a
\* poll was the last request.
C34_Witness ==
  /\ last.op = "poll"
  /\ DOMAIN pendingPolls = {1, 2}
  /\ RoomOf(1) = RoomOf(2)
  /\ QueueOf(1) = <<>>
  /\ QueueOf(2) = <<>>

\* C35: in every state between two operations each room of the registry has
\* at least one member, and a step that takes the last member out of a room
\* takes the room out of the registry.
C35_NoEmptyRoom ==
  /\ [](\A code \in DOMAIN rooms : Len(rooms[code]) >= 1)
  /\ [][\A code \in DOMAIN rooms :
          (\A i \in 1..Len(rooms[code]) :
             \A other \in DOMAIN rooms' : ~HasClient(rooms'[other], rooms[code][i].id))
            => code \notin DOMAIN rooms']_vars

\* C35 witness: the sweep has just evicted both members of the only room and
\* deleted the room; the sessions of the members are what is left of it.
C35_Witness ==
  /\ last.op = "cleanup"
  /\ rooms = EmptyMap
  /\ DOMAIN clientRooms = {1, 2}
  /\ nextClient = 3
  /\ left = {}

\* the responses a step writes to client c that carry events: its own poll
\* response and the responses written to its parked polls
Carrying(c) ==
  (IF Poll(c) /\ last'.op = "poll" /\ last'.status = 200 /\ last'.events # <<>>
   THEN 1 ELSE 0)
    + Len(SelectSeq(sent', LAMBDA response :
                             response.client = c /\ response.events # <<>>))

\* C36: for a client that stays a member, a step writes at most one response
\* that carries events; that response returns the whole queue, oldest first,
\* with the event of the step if there is one, and leaves the queue empty;
\* a step without such a response keeps the queue and adds at most one event
\* at its tail.  The timeout of a parked poll and the poll that supersedes a
\* parked poll answer it without events and leave every queue as it was.
C36_ReturnedOnce ==
  /\ [][\A c \in ClientIds :
          (IsMember(c) /\ IsMember(c)') =>
             /\ Carrying(c) <= 1
             /\ Carrying(c) = 1 =>
                  /\ QueueOf(c)' = <<>>
                  /\ IsPrefix(QueueOf(c), Returned(c))
                  /\ Len(Returned(c)) <= Len(QueueOf(c)) + 1
             /\ Carrying(c) = 0 =>
                  /\ Returned(c) = <<>>
                  /\ IsPrefix(QueueOf(c), QueueOf(c)')
                  /\ Len(QueueOf(c)') <= Len(QueueOf(c)) + 1]_vars
  /\ [][\A res \in DOMAIN timers :
          Timeout(res) =>
             /\ sent' = <<EmptyAnswer(polls[res].client, res)>>
             /\ AllQueues' = AllQueues]_vars
  /\ [][\A c \in DOMAIN pendingPolls :
          (Poll(c) /\ last'.status = 0) =>
             /\ sent' = <<EmptyAnswer(c, pendingPolls[c].res)>>
             /\ AllQueues' = AllQueues]_vars

\* C36 witness: the one poll that was parked is gone, a message was sent to
\* the room, and the poll of a member whose queue held nothing else has just
\* returned that message: every queue is empty and no poll is parked.
C36_Witness ==
  /\ last.op = "poll" /\ last.status = 200
  /\ Types(last.events) = <<"msg">>
  /\ nextRes = 2
  /\ nSends = 1
  /\ pendingPolls = EmptyMap
  /\ \A c \in ClientIds : IsMember(c) => QueueOf(c) = <<>>

\* C37: a parked poll stays registered for at most POLL_TIMEOUT_MS after
\* the poll, which is less than CLIENT_TIMEOUT_MS, so no client with a
\* registered parked poll is stale; and no member a sweep removes from its
\* room has a parked poll registered when the sweep starts, so the sweep
\* writes no response to it.
C37_EvictedNotParked ==
  /\ POLL_TIMEOUT_MS < CLIENT_TIMEOUT_MS
  /\ [](\A c \in DOMAIN pendingPolls :
          IsMember(c) => now - LastSeenOf(c) <= POLL_TIMEOUT_MS)
  /\ [][Cleanup =>
          \A code \in DOMAIN rooms :
            \A i \in 1..Len(rooms[code]) :
              (\A other \in DOMAIN rooms' : ~HasClient(rooms'[other], rooms[code][i].id)) =>
                 /\ rooms[code][i].id \notin DOMAIN pendingPolls
                 /\ \A k \in 1..Len(sent') : sent'[k].client # rooms[code][i].id]_vars

\* C37 witness: the sweep has just evicted a client whose parked poll had
\* been answered by its timer before.
C37_Witness ==
  /\ last.op = "cleanup"
  /\ \E res \in DOMAIN polls :
       /\ polls[res].answered = 1
       /\ ~polls[res].closed
       /\ ~IsMember(polls[res].client)
       /\ polls[res].client \in DOMAIN clientRooms
  /\ pendingPolls = EmptyMap

\* C38: the lastSeen of a member that stays in its room changes only in a
\* step that is a poll of that member answered with events or parked, and it
\* becomes the time of the poll; a send changes the lastSeen of no member,
\* the sender's included; and a sweep removes every member whose lastSeen is
\* more than CLIENT_TIMEOUT_MS old, whatever it has sent.
C38_OnlyPollTouches ==
  /\ [][\A c \in ClientIds :
          (IsMember(c) /\ IsMember(c)' /\ LastSeenOf(c)' # LastSeenOf(c)) =>
             /\ Poll(c)
             /\ last'.op = "poll"
             /\ last'.status \in {0, 200}
             /\ LastSeenOf(c)' = now]_vars
  /\ [][\A c \in ClientIds, raw \in RawTexts :
          Send(c, raw) =>
            \A d \in ClientIds :
              IsMember(d) => IsMember(d)' /\ LastSeenOf(d)' = LastSeenOf(d)]_vars
  /\ [][Cleanup =>
          \A c \in ClientIds :
            (IsMember(c) /\ now - LastSeenOf(c) > CLIENT_TIMEOUT_MS) => ~IsMember(c)']_vars

\* C38 witness: a member that had been silent for longer than
\* CLIENT_TIMEOUT_MS sent a message and did not poll; the sweep has just
\* evicted it with the rest of its room.
C38_Witness ==
  /\ last.op = "cleanup"
  /\ nSends = 1
  /\ nextRes = 1
  /\ rooms = EmptyMap
  /\ DOMAIN clientRooms = {1, 2}
  /\ left = {}

====
